---- MODULE Spec2Model ----
(***************************************************************************)
(* Model of the IRA Ranker core (src/src/ranker.py) and its request        *)
(* schema (src/services/ranker/app/schemas.py).                            *)
(*                                                                         *)
(* Conventions                                                             *)
(*  - A Python str is a sequence of one-character strings.                 *)
(*  - A float in [0,1] is a fixed-point integer in 0..SCALE (three         *)
(*    decimals); quotients are floored once, at the end of a formula.      *)
(*  - A datetime is a record [t |-> hours on the UTC time line,            *)
(*    aware |-> whether it carries a tzinfo].                              *)
(*  - None is "None" for a string, NoDepth for resolutionDepth and the     *)
(*    empty sequence for an Optional[RankedItem].                          *)
(***************************************************************************)
EXTENDS Integers, Sequences, FiniteSets, TLC

SCALE == 1000

None == "None"
NoDepth == -1

Min2(a, b) == IF a <= b THEN a ELSE b
Max2(a, b) == IF a >= b THEN a ELSE b

(***************************************************************************)
(* Character classes of the regular expressions (ASCII part).              *)
(***************************************************************************)
LowerChars == {"a", "b", "c", "d", "e", "n", "p", "v", "w", "x", "y"}
UpperChars == {"A", "B"}
DigitChars == {"0", "1", "2", "3", "4", "5", "6", "7", "8", "9"}
SpaceChars == {" ", "\t", "\n"}
LetterChars == LowerChars \cup UpperChars
WordChars == LetterChars \cup DigitChars \cup {"_"}

\* str.lower() on one character
LowerOf(c) ==
  CASE c = "A" -> "a"
    [] c = "B" -> "b"
    [] OTHER -> c

\* int() of one decimal digit
DigitVal(c) ==
  CASE c = "0" -> 0 [] c = "1" -> 1 [] c = "2" -> 2 [] c = "3" -> 3
    [] c = "4" -> 4 [] c = "5" -> 5 [] c = "6" -> 6 [] c = "7" -> 7
    [] c = "8" -> 8 [] c = "9" -> 9

\* s[i..j] (1-based, inclusive); empty when j < i
Slice(s, i, j) == IF j < i THEN << >> ELSE SubSeq(s, i, j)

\* str.strip(): drop leading and trailing whitespace
RECURSIVE LStrip(_)
LStrip(s) ==
  IF s # << >> /\ Head(s) \in SpaceChars THEN LStrip(Tail(s)) ELSE s

RECURSIVE RStrip(_)
RStrip(s) ==
  IF s # << >> /\ s[Len(s)] \in SpaceChars
    THEN RStrip(SubSeq(s, 1, Len(s) - 1)) ELSE s

Strip(s) == RStrip(LStrip(s))

Lower(s) == [i \in 1..Len(s) |-> LowerOf(s[i])]

\* last index of the maximal run of characters of class cls starting at i
\* (i - 1 when s[i] is not in cls)
RECURSIVE RunEnd(_, _, _)
RunEnd(s, i, cls) ==
  IF i <= Len(s) /\ s[i] \in cls THEN RunEnd(s, i + 1, cls) ELSE i - 1

\* last index of the maximal run of characters NOT in cls starting at i
RECURSIVE RunEndNot(_, _, _)
RunEndNot(s, i, cls) ==
  IF i <= Len(s) /\ s[i] \notin cls THEN RunEndNot(s, i + 1, cls) ELSE i - 1

(***************************************************************************)
(* Length of the match of each pattern at position i of s (0: no match).   *)
(***************************************************************************)

\* _PLACEHOLDER_RE = <[^>]{1,32}>
PlaceholderMatch(s, i) ==
  IF s[i] # "<" THEN 0
  ELSE LET e == RunEndNot(s, i + 1, {">"})   \* last char before the first ">"
           n == e - i                         \* chars matched by [^>]{1,32}
       IN IF e + 1 <= Len(s) /\ n >= 1 /\ n <= 32 THEN n + 2 ELSE 0

\* _NUM_RE = \b\d+(?:\.\d+)?\b
NumMatch(s, i) ==
  IF s[i] \notin DigitChars THEN 0
  ELSE IF i > 1 /\ s[i - 1] \in WordChars THEN 0      \* leading \b fails
  ELSE LET e == RunEnd(s, i, DigitChars)               \* \d+ (greedy)
           f == IF e + 2 <= Len(s) /\ s[e + 1] = "." /\ s[e + 2] \in DigitChars
                  THEN RunEnd(s, e + 2, DigitChars) ELSE 0
           BoundaryAfter(q) == q = Len(s) \/ s[q + 1] \notin WordChars
       IN IF f > 0 /\ BoundaryAfter(f) THEN f - i + 1
          ELSE IF BoundaryAfter(e) THEN e - i + 1
          ELSE 0

\* _PATH_RE = ([A-Za-z]:\\\\[^\s]+|/(?:[^\s/]+/)+[^\s]+)
PathMatch(s, i) ==
  LET r == RunEndNot(s, i, SpaceChars)   \* end of the non-space run at i
      win == /\ s[i] \in LetterChars
             /\ i + 4 <= r
             /\ s[i + 1] = ":" /\ s[i + 2] = "\\" /\ s[i + 3] = "\\"
      p == RunEndNot(s, i + 1, SpaceChars \cup {"/"}) + 1  \* first "/" after i
      posix == /\ s[i] = "/"
               /\ p > i + 1          \* first segment is non-empty
               /\ p < r              \* a "/" closes it, something follows
  IN IF win \/ posix THEN r - i + 1 ELSE 0

\* _WHITESPACE_RE = \s+
WhitespaceMatch(s, i) == RunEnd(s, i, SpaceChars) - i + 1

\* re.sub for the four patterns: leftmost, non-overlapping matches
RECURSIVE SubPlaceholder(_, _)
SubPlaceholder(s, i) ==
  IF i > Len(s) THEN << >>
  ELSE LET m == PlaceholderMatch(s, i)
       IN IF m > 0 THEN <<"<", "x", ">">> \o SubPlaceholder(s, i + m)
          ELSE <<s[i]>> \o SubPlaceholder(s, i + 1)

RECURSIVE SubNum(_, _)
SubNum(s, i) ==
  IF i > Len(s) THEN << >>
  ELSE LET m == NumMatch(s, i)
       IN IF m > 0 THEN <<"<", "n", ">">> \o SubNum(s, i + m)
          ELSE <<s[i]>> \o SubNum(s, i + 1)

RECURSIVE SubPath(_, _)
SubPath(s, i) ==
  IF i > Len(s) THEN << >>
  ELSE LET m == PathMatch(s, i)
       IN IF m > 0 THEN <<"<", "p", ">">> \o SubPath(s, i + m)
          ELSE <<s[i]>> \o SubPath(s, i + 1)

RECURSIVE SubWhitespace(_, _)
SubWhitespace(s, i) ==
  IF i > Len(s) THEN << >>
  ELSE LET m == WhitespaceMatch(s, i)
       IN IF m > 0 THEN <<" ">> \o SubWhitespace(s, i + m)
          ELSE <<s[i]>> \o SubWhitespace(s, i + 1)

\* _norm_text
norm_text(s) ==
  LET s1 == Lower(Strip(s))
      s2 == SubPlaceholder(s1, 1)
      s3 == SubNum(s2, 1)
      s4 == SubPath(s3, 1)
  IN SubWhitespace(s4, 1)

(***************************************************************************)
(* difflib.SequenceMatcher(None, a, b).ratio() for strings shorter than    *)
(* 200 characters (no junk, no autojunk): Ratcliff/Obershelp matching.     *)
(* Indices are Python's 0-based half-open ranges [alo, ahi), [blo, bhi).   *)
(***************************************************************************)

\* find_longest_match: the longest common block, earliest in a, then in b
find_longest_match(a, b, alo, ahi, blo, bhi) ==
  LET Blocks == {blk \in (alo..(ahi - 1)) \X (blo..(bhi - 1)) \X (1..Min2(ahi - alo, bhi - blo)) :
                   /\ blk[1] + blk[3] <= ahi
                   /\ blk[2] + blk[3] <= bhi
                   /\ \A d \in 0..(blk[3] - 1) : a[blk[1] + d + 1] = b[blk[2] + d + 1]}
      Better(x, y) == \/ x[3] > y[3]
                      \/ x[3] = y[3] /\ x[1] < y[1]
                      \/ x[3] = y[3] /\ x[1] = y[1] /\ x[2] < y[2]
  IN IF Blocks = {} THEN <<alo, blo, 0>>
     ELSE CHOOSE x \in Blocks : \A y \in Blocks \ {x} : Better(x, y)

\* sum of the sizes of get_matching_blocks() within the two ranges
RECURSIVE matching_size(_, _, _, _, _, _)
matching_size(a, b, alo, ahi, blo, bhi) ==
  LET m == find_longest_match(a, b, alo, ahi, blo, bhi)
      i == m[1]
      j == m[2]
      k == m[3]
  IN IF k = 0 THEN 0
     ELSE k + (IF alo < i /\ blo < j
                 THEN matching_size(a, b, alo, i, blo, j) ELSE 0)
            + (IF i + k < ahi /\ j + k < bhi
                 THEN matching_size(a, b, i + k, ahi, j + k, bhi) ELSE 0)

\* ratio() = 2.0 * matches / (len(a) + len(b)), 1.0 when both are empty
ratio(a, b) ==
  IF Len(a) + Len(b) = 0 THEN SCALE
  ELSE (2 * matching_size(a, b, 0, Len(a), 0, Len(b)) * SCALE) \div (Len(a) + Len(b))

skeleton_similarity(a, b) ==
  LET a_n == norm_text(a)
      b_n == norm_text(b)
  IN IF a_n = b_n THEN SCALE ELSE ratio(a_n, b_n)

\* set(x) of a list
SetOf(xs) == {xs[i] : i \in 1..Len(xs)}

jaccard(a, b) ==
  LET sa == SetOf(a)
      sb == SetOf(b)
      inter == Cardinality(sa \cap sb)
      union == Cardinality(sa \cup sb)
  IN IF sa = {} /\ sb = {} THEN 0
     ELSE IF union # 0 THEN (inter * SCALE) \div union ELSE 0

(***************************************************************************)
(* Timestamps.  tzinfo None is replaced by UTC, so the instant of a naive  *)
(* datetime is its wall-clock reading on the UTC time line.                *)
(***************************************************************************)
AsUtc(ts) == [t |-> ts.t, aware |-> TRUE]

RECURSIVE Pow2(_)
Pow2(n) == IF n <= 0 THEN 1 ELSE 2 * Pow2(n - 1)

\* recency_score without max(0.0, ...): 0.5 ** x with x < 0 for a candidate
\* later than the query
recency_score_unclipped(now, then, half_life_days) ==
  LET then_u == IF then.aware THEN then ELSE AsUtc(then)
      now_u == IF now.aware THEN now ELSE AsUtc(now)
      delta_hours == now_u.t - then_u.t
  IN IF delta_hours >= 0
       THEN SCALE \div Pow2(delta_hours \div (24 * half_life_days))
       ELSE SCALE * Pow2((0 - delta_hours) \div (24 * half_life_days))

\* recency_score: 0.5 ** (delta_days / half_life_days); the inputs of the
\* model keep delta_days a whole multiple of half_life_days
recency_score(now, then, half_life_days) ==
  LET then_u == IF then.aware THEN then ELSE AsUtc(then)
      now_u == IF now.aware THEN now ELSE AsUtc(now)
      delta_hours == Max2(0, now_u.t - then_u.t)
  IN SCALE \div Pow2(delta_hours \div (24 * half_life_days))

hours_between(now, then) ==
  LET then_u == IF then.aware THEN then ELSE AsUtc(then)
      now_u == IF now.aware THEN now ELSE AsUtc(now)
  IN now_u.t - then_u.t

\* int() of a run of decimal digits
RECURSIVE IntOf(_)
IntOf(ds) ==
  IF ds = << >> THEN 0
  ELSE 10 * IntOf(SubSeq(ds, 1, Len(ds) - 1)) + DigitVal(ds[Len(ds)])

\* parse_pyver: re.match(r"^\s*(\d+)\.(\d+)", v)
parse_pyver(v) ==
  LET a == RunEnd(v, 1, SpaceChars) + 1     \* first char after \s*
      e1 == RunEnd(v, a, DigitChars)
      e2 == RunEnd(v, e1 + 2, DigitChars)
      ok == /\ e1 >= a
            /\ e1 + 2 <= Len(v)
            /\ v[e1 + 1] = "."
            /\ e2 >= e1 + 2
  IN IF ~ok THEN <<0, 0>>
     ELSE <<IntOf(Slice(v, a, e1)), IntOf(Slice(v, e1 + 2, e2))>>

pyver_proximity(qv, cv) ==
  LET q == parse_pyver(qv)
      c == parse_pyver(cv)
  IN IF q[1] = c[1] /\ q[2] = c[2] THEN SCALE
     ELSE IF q[1] = c[1] THEN (8 * SCALE) \div 10
     ELSE (6 * SCALE) \div 10

file_affinity(query, cand) ==
  IF cand.activeFile_hash = query.activeFile_hash THEN SCALE ELSE 0

project_fingerprint(query, cand) ==
  IF cand.workingDirectory_hash = query.workingDirectory_hash THEN SCALE
  ELSE jaccard(query.directoryTree, cand.directoryTree)

package_overlap(query, cand) == jaccard(query.packages, cand.packages)

\* re.findall(r"[a-zA-Z_]+", s): the number of maximal letter runs from i on
RECURSIVE CountTokens(_, _)
CountTokens(s, i) ==
  IF i > Len(s) THEN 0
  ELSE IF s[i] \in LetterChars \cup {"_"}
    THEN 1 + CountTokens(s, RunEnd(s, i, LetterChars \cup {"_"}) + 1)
  ELSE CountTokens(s, i + 1)

MinTokens == 4

\* skeleton_informative that asks for one token only
skeleton_informative_one_token(s) == CountTokens(norm_text(s), 1) >= 1

skeleton_informative(s) == CountTokens(norm_text(s), 1) >= MinTokens

(***************************************************************************)
(* Requests                                                                *)
(***************************************************************************)
MaxCands == 3
MaxK == 3
MaxNonDefault == 2

Str_abcd == <<"a", " ", "b", " ", "c", " ", "d">>
Str_abcv == <<"a", " ", "b", " ", "c", " ", "<", "v", ">">>
Str_Abcw == <<"A", " ", "b", " ", " ", "c", " ", "<", "w", ">">>
Str_xy == <<"x", " ", "y">>
Str_a1 == <<"a", " ", "1">>
Str_3_11 == <<"3", ".", "1", "1">>
Str_3_9 == <<"3", ".", "9">>

Timestamp(t, aware) == [t |-> t, aware |-> aware]

Candidate(id, vs, skel, ts, fh, wh, tree, pk, pv, depth) ==
  [id |-> id, vector_similarity |-> vs, pemSkeleton |-> skel, timestamp |-> ts,
   activeFile_hash |-> fh, workingDirectory_hash |-> wh, directoryTree |-> tree,
   packages |-> pk, pythonVersion |-> pv, resolutionDepth |-> depth]

\* the candidates a request is built from
CandidatePool ==
  { Candidate("a", 1000, Str_abcd, Timestamp(48, TRUE), "F", "W", <<"m">>, <<"p">>, Str_3_11, 2),
    Candidate("b", 500, Str_abcv, Timestamp(72, TRUE), "G", "W", <<"m">>, <<"p">>, Str_3_11, 2),
    Candidate("c", 500, Str_abcv, Timestamp(48, TRUE), "G", "W", <<"m">>, <<"q">>, Str_3_11, 3),
    Candidate("a", 900, Str_Abcw, Timestamp(48, TRUE), "G", "V", <<"m", "o">>, <<"p">>, Str_3_9, 0),
    Candidate("d", 950, Str_xy, Timestamp(24, FALSE), "", "V", << >>, << >>, << >>, NoDepth),
    Candidate("e", 500, Str_abcv, Timestamp(72, FALSE), "G", "W", <<"m">>, <<"p">>, Str_3_11, 2) }

CandidateLists == UNION {[1..n -> CandidatePool] : n \in 0..MaxCands}

QueryContexts ==
  { [pemSkeleton |-> skel, timestamp |-> Timestamp(48, aware),
     activeFile_hash |-> "F", workingDirectory_hash |-> "W",
     directoryTree |-> <<"m">>, packages |-> <<"p", "q">>, pythonVersion |-> Str_3_11]
    : skel \in {Str_abcd, Str_a1}, aware \in BOOLEAN }

\* the defaults of RankParams (recency_half_life_days is 1 instead of 14 so
\* that the exponent of the recency decay is a whole number)
DefaultParams ==
  [k |-> 3, mmr_lambda |-> 700, confidence_floor |-> 500,
   recency_half_life_days |-> 1, skeleton_filter_threshold |-> 600,
   allow_repeat_depth |-> 3, allow_repeat_min_hours |-> 24,
   success_bonus_alpha |-> 30]

\* RankParams within the bounds of the schema: the defaults with at most
\* MaxNonDefault fields changed
RankParamsSet ==
  { p \in [k : 1..MaxK,
           mmr_lambda : {0, 700, 1000},
           confidence_floor : {0, 500, 1000},
           recency_half_life_days : {1},
           skeleton_filter_threshold : {0, 600, 1000},
           allow_repeat_depth : {0, 3},
           allow_repeat_min_hours : {0, 24},
           success_bonus_alpha : {0, 30}] :
      Cardinality({f \in DOMAIN p : p[f] # DefaultParams[f]}) <= MaxNonDefault }

RankRequests == [params : RankParamsSet, query : QueryContexts, candidates : CandidateLists]

(***************************************************************************)
(* The adapter (src/src/adapter.py).  A Python dict is a record with the   *)
(* set `keys` of the keys it has; d.get(k) is None when k is not in keys.  *)
(* A value that is not a list (a missing or None vector, a missing         *)
(* current_vector) is flagged by is_list = FALSE.  A cosine is a           *)
(* fixed-point number in -SCALE..SCALE, truncated towards 0.               *)
(***************************************************************************)
MaxMinimalCands == 3
MaxFullCands == 3

CurrentVectors == {<<1, 0>>, <<1, 1>>}

CandVectors == {<<1, 0>>, <<1, 1>>, <<0, 1>>, <<-1, 0>>, <<1>>}

\* the sum of ai * bi over zip(a, b), for two lists of the same length
RECURSIVE Dot(_, _)
Dot(a, b) == IF a = << >> THEN 0 ELSE Head(a) * Head(b) + Dot(Tail(a), Tail(b))

\* _cosine raises ValueError: vector length mismatch
cosine_raises(a, b) == Len(a) # Len(b)

\* floor(SCALE * sqrt(num / den)), for 0 <= num <= den
RootOf(num, den) ==
  CHOOSE c \in 0..SCALE :
    /\ c * c * den <= SCALE * SCALE * num
    /\ (c + 1) * (c + 1) * den > SCALE * SCALE * num

\* _cosine: dot / math.sqrt(na * nb), 0.0 when a norm is 0
cosine(a, b) ==
  LET dot == Dot(a, b)
      na == Dot(a, a)
      nb == Dot(b, b)
  IN IF na = 0 \/ nb = 0 THEN 0
     ELSE IF dot >= 0 THEN RootOf(dot * dot, na * nb)
     ELSE 0 - RootOf(dot * dot, na * nb)

\* the values of _cosine on the vectors of the model
CosineTable ==
  [a \in CurrentVectors |->
     [b \in {v \in CandVectors \cup {<< >>} : Len(v) = Len(a)} |-> cosine(a, b)]]

\* a candidate dict of input_data["candidates"]
CandDict(keys, id, vector, skel, pv, fh) ==
  [keys |-> keys, id |-> id, vector |-> vector, pemSkeleton |-> skel,
   pythonVersion |-> pv, activeFile_hash |-> fh]

\* isinstance(c.get("vector"), list)
VectorIsList(c) == "vector" \in c.keys

\* c.get("vector") or []
VectorOrEmpty(c) == IF "vector" \in c.keys THEN c.vector ELSE << >>

\* candidate dicts with no other key than id and vector
MinimalDicts ==
  { CandDict({"id", "vector"}, id, v, << >>, << >>, "") : id \in {"A", "B"}, v \in CandVectors }
  \cup { CandDict({"id"}, "A", << >>, << >>, << >>, ""),
         CandDict({"vector"}, None, <<1, 0>>, << >>, << >>, "") }

\* candidate dicts that carry metadata, and a few that lack a key
FullDicts ==
  { CandDict({"id", "vector", "pemSkeleton", "pythonVersion"}, "A", <<1, 0>>, Str_abcd, Str_3_11, ""),
    CandDict({"id", "vector", "pemSkeleton", "pythonVersion"}, "B", <<1, 1>>, Str_abcd, Str_3_11, ""),
    CandDict({"id", "vector", "pemSkeleton", "pythonVersion"}, "C", <<0, 1>>, Str_xy, Str_3_9, ""),
    CandDict({"id", "vector", "pemSkeleton", "pythonVersion", "activeFile_hash"},
             "D", <<1, 1>>, Str_abcd, Str_3_11, "G"),
    CandDict({"id", "vector", "pemSkeleton", "pythonVersion", "activeFile_hash"},
             "A", <<1>>, Str_abcv, Str_3_11, "G"),
    CandDict({"id", "pemSkeleton", "pythonVersion", "activeFile_hash"},
             "B", << >>, Str_abcv, Str_3_11, "F"),
    CandDict({"id", "vector", "pemSkeleton", "pythonVersion"}, "C", <<-1, 0>>, Str_abcd, Str_3_11, ""),
    CandDict({"id", "vector"}, "D", <<1, 0>>, << >>, << >>, ""),
    CandDict({"vector", "pemSkeleton", "pythonVersion"}, None, <<1, 0>>, Str_abcd, Str_3_11, "") }

\* input_data.get("current_meta") or {}
MetaDict(keys, skeleton, pemSkeleton, pv) ==
  [keys |-> keys, skeleton |-> skeleton, pemSkeleton |-> pemSkeleton, pythonVersion |-> pv]

NoMeta == MetaDict({}, << >>, << >>, << >>)

CurrentMetas ==
  { NoMeta,
    MetaDict({"skeleton", "pythonVersion"}, Str_abcd, << >>, Str_3_11),
    MetaDict({"pemSkeleton"}, << >>, Str_a1, << >>) }

\* input_data.get("params"): the fields it sets
ParamsDict(keys, k, floor) == [keys |-> keys, k |-> k, confidence_floor |-> floor]

NoParams == ParamsDict({}, 0, 0)

AdapterParams ==
  { NoParams,
    ParamsDict({"k"}, 1, 0),
    ParamsDict({"k"}, 2, 0),
    ParamsDict({"confidence_floor"}, 0, SCALE),
    ParamsDict({"confidence_floor"}, 0, 0) }

InputData(curr, is_list, cands, meta, params) ==
  [current_vector |-> curr, current_vector_is_list |-> is_list, candidates |-> cands,
   current_meta |-> meta, params |-> params]

\* bool(current_meta or params) or any(set(c.keys()) - {"id", "vector"} for c in cands)
meta_flag(input) ==
  \/ input.current_meta.keys # {}
  \/ input.params.keys # {}
  \/ \E i \in 1..Len(input.candidates) : input.candidates[i].keys \ {"id", "vector"} # {}

\* the readings of datetime.now(timezone.utc): the query's, then one per
\* candidate that has no timestamp, each later than the one before (by one
\* unit of time in the model)
AdapterNow == 48

\* qctx = QueryContext(**qdata)
build_query(input) ==
  LET m == input.current_meta
  IN [pemSkeleton |-> IF "skeleton" \in m.keys /\ m.skeleton # << >> THEN m.skeleton
                      ELSE IF "pemSkeleton" \in m.keys /\ m.pemSkeleton # << >> THEN m.pemSkeleton
                      ELSE << >>,
      timestamp |-> Timestamp(AdapterNow, TRUE),
      activeFile_hash |-> "", workingDirectory_hash |-> "",
      directoryTree |-> << >>, packages |-> << >>,
      pythonVersion |-> IF "pythonVersion" \in m.keys THEN m.pythonVersion ELSE << >>]

\* payload["vector_similarity"]
payload_similarity(c, curr) ==
  IF VectorIsList(c) /\ Len(c.vector) = Len(curr) THEN CosineTable[curr][c.vector] ELSE 0

\* payload["id"] = c["id"] raises KeyError
payload_key_error(c) == "id" \notin c.keys

\* Candidate(**payload) raises ValidationError: a required field is missing
\* or vector_similarity is outside [0, 1]
payload_invalid(c, curr) ==
  \/ "pemSkeleton" \notin c.keys
  \/ "pythonVersion" \notin c.keys
  \/ payload_similarity(c, curr) < 0
  \/ payload_similarity(c, curr) > SCALE

\* Candidate(**payload) for the i-th candidate dict
build_candidate(c, curr, i) ==
  Candidate(c.id, payload_similarity(c, curr), c.pemSkeleton, Timestamp(AdapterNow + i, TRUE),
            IF "activeFile_hash" \in c.keys THEN c.activeFile_hash ELSE "", "",
            << >>, << >>, c.pythonVersion, NoDepth)

\* rank_params = RankParams(**rp_kwargs): the defaults but for the fields
\* that params sets (RankParams has none of the alternates fields the
\* adapter looks for, so nothing else is set)
build_params(input) ==
  [DefaultParams EXCEPT
     !.k = IF "k" \in input.params.keys THEN input.params.k ELSE @,
     !.confidence_floor = IF "confidence_floor" \in input.params.keys
                            THEN input.params.confidence_floor ELSE @]

\* req = RankRequest(params=rank_params, query=qctx, candidates=cand_models)
build_request(input) ==
  [params |-> build_params(input),
   query |-> build_query(input),
   candidates |-> [i \in 1..Len(input.candidates) |->
                     build_candidate(input.candidates[i], input.current_vector, i)]]

\* the inputs of the minimal path and those that fail before it
MinimalInputs ==
  { InputData(curr[1], curr[2], cands, NoMeta, NoParams) :
      curr \in {<<v, TRUE>> : v \in CurrentVectors} \cup {<< << >>, FALSE>>},
      cands \in UNION {[1..n -> MinimalDicts] : n \in 0..MaxMinimalCands} }

\* the inputs of the full path
FullInputs ==
  { x \in { InputData(curr, TRUE, cands, meta, params) :
              curr \in CurrentVectors,
              cands \in UNION {[1..n -> FullDicts] : n \in 1..MaxFullCands},
              meta \in CurrentMetas, params \in AdapterParams } : meta_flag(x) }

\* the query contexts and the candidates the adapter hands to rank
AdapterQueries == {build_query(InputData(<<1, 0>>, TRUE, << >>, m, NoParams)) : m \in CurrentMetas}

AdapterCandidates ==
  { build_candidate(c, curr, i) :
      c \in {x \in FullDicts : ~payload_key_error(x)},
      curr \in CurrentVectors, i \in 1..MaxFullCands }

(***************************************************************************)
(* Scoring                                                                 *)
(***************************************************************************)
Channels == {"skeleton", "vector", "recency", "project", "file", "packages", "pyver"}

\* sum of f[k] over the keys ks
RECURSIVE SumOver(_, _)
SumOver(f, ks) ==
  IF ks = {} THEN 0
  ELSE LET k == CHOOSE x \in ks : TRUE
       IN f[k] + SumOver(f, ks \ {k})

\* BASE_WEIGHTS, in hundredths
BASE_WEIGHTS ==
  [k \in Channels |->
     CASE k = "skeleton" -> 40
       [] k = "vector" -> 35
       [] k = "recency" -> 10
       [] k = "project" -> 7
       [] k = "file" -> 3
       [] k = "packages" -> 3
       [] k = "pyver" -> 2]

\* depth_to_success: None -> 0.0, 0 -> 0.0, 1 -> 0.5, >= 2 -> 1.0
depth_to_success(depth) ==
  IF depth = NoDepth THEN 0
  ELSE IF depth >= 2 THEN SCALE
  ELSE IF depth = 1 THEN SCALE \div 2
  ELSE 0

\* reliability_multipliers, in tenths
reliability_multipliers(features, query, cand) ==
  LET s == features["skeleton"]
      proj == features["project"]
      rs == IF s >= 999 THEN 14
            ELSE IF s >= 900 THEN 12
            ELSE IF s >= 800 THEN 10
            ELSE IF s >= 600 THEN 7
            ELSE 5
      rp == IF cand.workingDirectory_hash = query.workingDirectory_hash \/ proj >= 500
              THEN 12 ELSE 9
  IN [k \in Channels |->
        IF k = "skeleton" THEN rs ELSE IF k = "project" THEN rp ELSE 10]

\* renorm that returns the weights as they are (in thousandths)
renorm_skipped(weights) == [num |-> weights, den |-> 1000]

\* renorm: weight k is num[k] / den
renorm(weights) ==
  LET pos == [k \in DOMAIN weights |-> Max2(0, weights[k])]
      s == SumOver(pos, DOMAIN weights)
  IN IF s <= 0
       THEN [num |-> [k \in DOMAIN weights |-> 1], den |-> Cardinality(DOMAIN weights)]
       ELSE [num |-> pos, den |-> s]

compute_features(query, cand, params) ==
  [k \in Channels |->
     CASE k = "skeleton" -> skeleton_similarity(query.pemSkeleton, cand.pemSkeleton)
       [] k = "vector" -> Max2(0, Min2(SCALE, cand.vector_similarity))
       [] k = "recency" -> recency_score(query.timestamp, cand.timestamp, params.recency_half_life_days)
       [] k = "project" -> project_fingerprint(query, cand)
       [] k = "file" -> file_affinity(query, cand)
       [] k = "packages" -> package_overlap(query, cand)
       [] k = "pyver" -> pyver_proximity(query.pythonVersion, cand.pythonVersion)]

(***************************************************************************)
(* The functions of (query, candidate) are tabulated once over the         *)
(* requests of the model and those the adapter builds; the tables hold the *)
(* values the functions above compute.                                     *)
(***************************************************************************)
HalfLives == {p.recency_half_life_days : p \in RankParamsSet}

\* candidates of two dedupe groups, for dedup_scored applied on its own:
\* older than, as old as and later than the query, with and without a
\* resolutionDepth
DedupCandidates ==
  { Candidate("a", 500, Str_abcv, ts, fh, "W", <<"m">>, <<"p">>, Str_3_11, depth) :
      ts \in {Timestamp(24, TRUE), Timestamp(48, TRUE), Timestamp(72, TRUE), Timestamp(48, FALSE)},
      fh \in {"F", "G"},
      depth \in {NoDepth, 0, 3} }

FeatureTable ==
  [q \in QueryContexts \cup AdapterQueries |->
     [c \in (IF q \in QueryContexts THEN CandidatePool ELSE AdapterCandidates) |->
        [h \in HalfLives |-> compute_features(q, c, [recency_half_life_days |-> h])]]]

InformativeTable ==
  [q \in QueryContexts \cup AdapterQueries |-> skeleton_informative(q.pemSkeleton)]

NormTable ==
  [c \in CandidatePool \cup AdapterCandidates \cup DedupCandidates |-> norm_text(c.pemSkeleton)]


\* the sentinel score -1.0 of a hard-filtered candidate
FILTERED == -SCALE

\* score_candidate without the hard filter
score_candidate_unfiltered(query, cand, params) ==
  LET f == FeatureTable[query][cand][params.recency_half_life_days]
      r == reliability_multipliers(f, query, cand)
      wprime == renorm([k \in Channels |-> BASE_WEIGHTS[k] * r[k]])
      base == SumOver([k \in Channels |-> wprime.num[k] * f[k]], Channels) \div wprime.den
      success == depth_to_success(cand.resolutionDepth)
      score == base + (params.success_bonus_alpha * success) \div SCALE
  IN [id |-> cand.id, features |-> f, score |-> Max2(0, Min2(SCALE, score)), cand |-> cand]

\* score_candidate without the clamp
score_candidate_unclamped(query, cand, params) ==
  LET f == FeatureTable[query][cand][params.recency_half_life_days]
      r == reliability_multipliers(f, query, cand)
      wprime == renorm([k \in Channels |-> BASE_WEIGHTS[k] * r[k]])
      base == SumOver([k \in Channels |-> wprime.num[k] * f[k]], Channels) \div wprime.den
      success == depth_to_success(cand.resolutionDepth)
      score == base + (params.success_bonus_alpha * success) \div SCALE
  IN IF f["skeleton"] < params.skeleton_filter_threshold /\ InformativeTable[query]
       THEN [id |-> cand.id, features |-> f, score |-> FILTERED, cand |-> cand]
       ELSE [id |-> cand.id, features |-> f, score |-> score, cand |-> cand]

\* wprime = renorm({k: BASE_WEIGHTS[k] * r.get(k, 1.0) for k in BASE_WEIGHTS})
effective_weights(f, query, cand) ==
  LET r == reliability_multipliers(f, query, cand)
  IN renorm([k \in Channels |-> BASE_WEIGHTS[k] * r[k]])

\* the body of score_candidate once f = compute_features(query, cand, params)
\* is known
score_features(f, query, cand, params) ==
  LET wprime == effective_weights(f, query, cand)
      base == SumOver([k \in Channels |-> wprime.num[k] * f[k]], Channels) \div wprime.den
      success == depth_to_success(cand.resolutionDepth)
      score == base + (params.success_bonus_alpha * success) \div SCALE
  IN IF f["skeleton"] < params.skeleton_filter_threshold /\ InformativeTable[query]
       THEN [id |-> cand.id, features |-> f, score |-> FILTERED, cand |-> cand]
       ELSE [id |-> cand.id, features |-> f, score |-> Max2(0, Min2(SCALE, score)), cand |-> cand]

score_candidate(query, cand, params) ==
  score_features(FeatureTable[query][cand][params.recency_half_life_days], query, cand, params)

(***************************************************************************)
(* list.sort(key = ..., reverse = True): stable, descending.               *)
(***************************************************************************)

\* key = lambda s: s.score
ScoreLess(x, y) == x.score < y.score

\* key = lambda s: (s.score, s.cand.timestamp)
ScoreTimeLess(x, y) ==
  \/ x.score < y.score
  \/ x.score = y.score /\ x.cand.timestamp.t < y.cand.timestamp.t

\* key(x) < key(y) for the two sort keys of the code
KeyLess(key, x, y) ==
  IF key = "score" THEN ScoreLess(x, y) ELSE ScoreTimeLess(x, y)

SortDesc(xs, key) ==
  LET n == Len(xs)
      \* the items placed before xs[i]: larger keys, and equal keys met earlier
      Before(i) == {j \in 1..n : \/ KeyLess(key, xs[i], xs[j])
                                 \/ j < i /\ ~KeyLess(key, xs[j], xs[i])}
  IN [p \in 1..n |-> xs[CHOOSE i \in 1..n : Cardinality(Before(i)) = p - 1]]

\* comparing the keys of x and y raises TypeError: the scores are equal and
\* one timestamp is naive, the other aware
ScoreTimeIncomparable(x, y) ==
  /\ x.score = y.score
  /\ x.cand.timestamp.aware # y.cand.timestamp.aware

(***************************************************************************)
(* Duplicate suppression                                                   *)
(***************************************************************************)
dedup_key(cand) ==
  <<NormTable[cand], IF cand.activeFile_hash # "" THEN cand.activeFile_hash ELSE "">>

\* the keys of the dict `groups`, in insertion order
RECURSIVE GroupKeys(_, _)
GroupKeys(xs, seen) ==
  IF xs = << >> THEN seen
  ELSE LET key == dedup_key(Head(xs).cand)
       IN GroupKeys(Tail(xs),
                    IF \E i \in 1..Len(seen) : seen[i] = key THEN seen ELSE Append(seen, key))

\* groups[key], before the sort
GroupItems(scored, key) ==
  LET InGroup(x) == x.score >= 0 /\ dedup_key(x.cand) = key
  IN SelectSeq(scored, InGroup)

\* FirstAllowed that keeps the next item of the group, whatever its depth and age
FirstAllowed_any(tail, primary, params) ==
  IF tail = << >> THEN << >> ELSE <<Head(tail)>>

\* FirstAllowed that reads a missing resolutionDepth as depth 0
RECURSIVE FirstAllowed_null_as_zero(_, _, _)
FirstAllowed_null_as_zero(tail, primary, params) ==
  IF tail = << >> THEN << >>
  ELSE LET x == Head(tail)
           age_hours == hours_between(primary.cand.timestamp, x.cand.timestamp)
           depth == IF x.cand.resolutionDepth = NoDepth THEN 0 ELSE x.cand.resolutionDepth
       IN IF /\ depth >= params.allow_repeat_depth
             /\ age_hours >= params.allow_repeat_min_hours
            THEN <<x>>
            ELSE FirstAllowed_null_as_zero(Tail(tail), primary, params)

\* the first item of the tail that qualifies as the allowed repeat
RECURSIVE FirstAllowed(_, _, _)
FirstAllowed(tail, primary, params) ==
  IF tail = << >> THEN << >>
  ELSE LET x == Head(tail)
           age_hours == hours_between(primary.cand.timestamp, x.cand.timestamp)
       IN IF /\ x.cand.resolutionDepth # NoDepth
             /\ x.cand.resolutionDepth >= params.allow_repeat_depth
             /\ age_hours >= params.allow_repeat_min_hours
            THEN <<x>>
            ELSE FirstAllowed(Tail(tail), primary, params)

\* GroupKeep that keeps the allowed repeat only
GroupKeep_repeat_only(items, params) ==
  LET sorted == SortDesc(items, "score_time")
  IN FirstAllowed(Tail(sorted), sorted[1], params)

\* GroupKeep without items.sort: the primary is the first item met
GroupKeep_unsorted(items, params) ==
  <<items[1]>> \o FirstAllowed(Tail(items), items[1], params)

\* the list `keep` of one group
GroupKeep(items, params) ==
  LET sorted == SortDesc(items, "score_time")
      primary == sorted[1]
  IN <<primary>> \o FirstAllowed(Tail(sorted), primary, params)

RECURSIVE ExtendAll(_, _, _)
ExtendAll(keys, scored, params) ==
  IF keys = << >> THEN << >>
  ELSE GroupKeep(GroupItems(scored, Head(keys)), params)
         \o ExtendAll(Tail(keys), scored, params)

\* items.sort(...) of some group raises TypeError
dedup_raises(scored) ==
  \E i, j \in 1..Len(scored) :
    /\ i # j
    /\ scored[i].score >= 0 /\ scored[j].score >= 0
    /\ dedup_key(scored[i].cand) = dedup_key(scored[j].cand)
    /\ ScoreTimeIncomparable(scored[i], scored[j])

\* dedup_scored without the final sort by score
dedup_scored_unsorted(scored, query, params) ==
  LET Kept(x) == x.score >= 0
      keys == GroupKeys(SelectSeq(scored, Kept), << >>)
  IN ExtendAll(keys, scored, params)

dedup_scored(scored, query, params) ==
  LET Kept(x) == x.score >= 0
      keys == GroupKeys(SelectSeq(scored, Kept), << >>)
  IN SortDesc(ExtendAll(keys, scored, params), "score")

(***************************************************************************)
(* Diversity: MMR                                                          *)
(***************************************************************************)
\* similarity_of that compares the hashes without asking that they be set
similarity_of_any_hash(a, b, a_n, b_n) ==
  IF a.cand.activeFile_hash = b.cand.activeFile_hash
    THEN SCALE
  ELSE IF a_n = b_n
    THEN (8 * SCALE) \div 10
  ELSE jaccard(a.cand.packages, b.cand.packages)

\* the body of candidate_similarity once a_n = _norm_text(a.cand.pemSkeleton)
\* and b_n = _norm_text(b.cand.pemSkeleton) are known
similarity_of(a, b, a_n, b_n) ==
  IF /\ a.cand.activeFile_hash # ""
     /\ b.cand.activeFile_hash # ""
     /\ a.cand.activeFile_hash = b.cand.activeFile_hash
    THEN SCALE
  ELSE IF a_n = b_n
    THEN (8 * SCALE) \div 10
  ELSE jaccard(a.cand.packages, b.cand.packages)

candidate_similarity(a, b) ==
  similarity_of(a, b, NormTable[a.cand], NormTable[b.cand])

\* max(candidate_similarity(s, t) for t in selected)
MaxSim(s, selected) ==
  LET sims == {candidate_similarity(s, selected[i]) : i \in 1..Len(selected)}
  IN CHOOSE m \in sims : \A o \in sims : o <= m

\* MmrVal whose similarity penalty is not weighted by 1 - lamb
MmrVal_full_penalty(s, selected, lamb) ==
  lamb * s.score - SCALE * MaxSim(s, selected)

\* lamb * s.score - (1.0 - lamb) * sim_to_selected, in units of 1/SCALE^2
MmrVal(s, selected, lamb) ==
  lamb * s.score - (SCALE - lamb) * MaxSim(s, selected)

\* BestIdx with `val >= best_val`: the last index whose val is maximal
BestIdx_last(remaining, selected, lamb) ==
  CHOOSE i \in 1..Len(remaining) :
    /\ \A j \in 1..Len(remaining) :
         MmrVal(remaining[j], selected, lamb) <= MmrVal(remaining[i], selected, lamb)
    /\ \A j \in (i + 1)..Len(remaining) :
         MmrVal(remaining[j], selected, lamb) < MmrVal(remaining[i], selected, lamb)

\* best_idx of the inner loop: the first index whose val is maximal
BestIdx(remaining, selected, lamb) ==
  CHOOSE i \in 1..Len(remaining) :
    /\ \A j \in 1..Len(remaining) :
         MmrVal(remaining[j], selected, lamb) <= MmrVal(remaining[i], selected, lamb)
    /\ \A j \in 1..(i - 1) :
         MmrVal(remaining[j], selected, lamb) < MmrVal(remaining[i], selected, lamb)

\* list.pop(i) leaves this
Without(xs, i) == Slice(xs, 1, i - 1) \o Slice(xs, i + 1, Len(xs))

RECURSIVE MmrLoop(_, _, _, _)
MmrLoop(selected, remaining, k, lamb) ==
  IF remaining = << >> \/ Len(selected) >= k THEN selected
  ELSE IF selected = << >>
    THEN MmrLoop(<<remaining[1]>>, Without(remaining, 1), k, lamb)
  ELSE LET best_idx == BestIdx(remaining, selected, lamb)
       IN MmrLoop(Append(selected, remaining[best_idx]),
                  Without(remaining, best_idx), k, lamb)

mmr_select(scored, k, lamb) ==
  IF k <= 0 \/ scored = << >> THEN << >>
  ELSE MmrLoop(<< >>, scored, k, lamb)

(***************************************************************************)
(* Public entrypoint                                                       *)
(***************************************************************************)
MICRO == 1000000

\* round(x, 6): the emitted number, in millionths
round6(x) == x * (MICRO \div SCALE)

\* the subtraction query.timestamp - s.cand.timestamp raises TypeError
subtract_raises(now, then) == now.aware # then.aware

\* reasons_for without max(0, ...) around the days
reasons_for_negative_days(s, query) ==
  LET days == ((query.timestamp.t - s.cand.timestamp.t) * 3600) \div 86400
  IN (IF s.features["skeleton"] >= 999 THEN <<"signature match">>
      ELSE IF s.features["skeleton"] >= 800 THEN <<"signature similar">>
      ELSE << >>)
     \o (IF s.features["file"] >= 999 THEN <<"same file">>
         ELSE IF 250 <= s.features["file"] /\ s.features["file"] < 999 THEN <<"same filetype">>
         ELSE << >>)
     \o (IF s.features["packages"] > 0 THEN <<"package overlap">> ELSE << >>)
     \o <<"recent: " \o ToString(days) \o "d">>
     \o (IF depth_to_success(s.cand.resolutionDepth) >= 500 THEN <<"success before">> ELSE << >>)

reasons_for(s, query) ==
  LET days == Max2(0, ((query.timestamp.t - s.cand.timestamp.t) * 3600) \div 86400)
  IN (IF s.features["skeleton"] >= 999 THEN <<"signature match">>
      ELSE IF s.features["skeleton"] >= 800 THEN <<"signature similar">>
      ELSE << >>)
     \o (IF s.features["file"] >= 999 THEN <<"same file">>
         ELSE IF 250 <= s.features["file"] /\ s.features["file"] < 999 THEN <<"same filetype">>
         ELSE << >>)
     \o (IF s.features["packages"] > 0 THEN <<"package overlap">> ELSE << >>)
     \o <<"recent: " \o ToString(days) \o "d">>
     \o (IF depth_to_success(s.cand.resolutionDepth) >= 500 THEN <<"success before">> ELSE << >>)

RankedItem(s, query) ==
  [id |-> s.id,
   score |-> round6(s.score),
   features |-> [k \in Channels |-> round6(s.features[k])],
   reasons |-> reasons_for(s, query)]

RankResponse(abstain, reason, best, alternates) ==
  [abstain |-> abstain, reason |-> reason, best |-> best, alternates |-> alternates]

\* sort_chosen without the sort: the order of the MMR picks
sort_chosen_skipped(chosen) == chosen

\* chosen.sort(key=lambda s: s.score, reverse=True)
sort_chosen(chosen) == SortDesc(chosen, "score")

\* select_k that forgets params.k
select_k_all(params, scored) == Max2(1, Len(scored))

\* k = max(1, min(params.k, len(scored)))
select_k(params, scored) == Max2(1, Min2(params.k, Len(scored)))

\* abstain_response with the abstain flag left at its default
abstain_response_unflagged(reason) == RankResponse(FALSE, reason, << >>, << >>)

\* the response of an abstention
abstain_response(reason) == RankResponse(TRUE, reason, << >>, << >>)

\* abstain_reason with the floor tested before the outcome of the filter
abstain_reason_floor_first(cands, scored1, scored2, params) ==
  IF cands = << >> THEN "no_candidates"
  ELSE IF scored2 = << >> \/ scored2[1].score < params.confidence_floor
    THEN "low_confidence"
  ELSE None

\* the early returns of rank, in the order of the code: the reason of the
\* abstention, None when rank goes on to select
abstain_reason(cands, scored1, scored2, params) ==
  IF cands = << >> THEN "no_candidates"
  ELSE IF scored1 = << >> THEN "all_filtered"
  ELSE IF scored2 = << >> THEN "all_deduped"
  ELSE IF scored2[1].score < params.confidence_floor THEN "low_confidence"
  ELSE None

\* scored = [score_candidate(query, c, params) for c in cands], then the
\* comprehension that drops the filtered ones
score_all(r) ==
  LET all == [i \in 1..Len(r.candidates) |->
                score_candidate(r.query, r.candidates[i], r.params)]
      Unfiltered(x) == x.score >= 0
  IN SelectSeq(all, Unfiltered)

\* ranked_items, reasons_for raises TypeError for some chosen item
reasons_raise(chosen1, query) ==
  \E i \in 1..Len(chosen1) : subtract_raises(query.timestamp, chosen1[i].cand.timestamp)

ranked_items(chosen1, query) ==
  [i \in 1..Len(chosen1) |-> RankedItem(chosen1[i], query)]

(***************************************************************************)
(* State machine: a request arrives, rank is applied to it.                *)
(***************************************************************************)
VARIABLES req, pc, scored, deduped, chosen, resp, arg, ret

\* arg and ret hold the argument and the successive results of a function
\* that is applied on its own (the specifications further down); they stay
\* empty while rank runs
vars == <<req, pc, scored, deduped, chosen, resp, arg, ret>>

Init ==
  /\ req \in RankRequests
  /\ pc = "start"
  /\ scored = << >>
  /\ deduped = << >>
  /\ chosen = << >>
  /\ resp = RankResponse(FALSE, None, << >>, << >>)
  /\ arg = << >>
  /\ ret = << >>

\* rank(r).  The locals scored (after the filter), deduped and chosen are
\* kept in the state; pc records whether rank returned or raised.
RankOn(r) ==
  \E scored1 \in {score_all(r)} :
  \E sort_raises \in {scored1 # << >> /\ dedup_raises(scored1)} :
  \E scored2 \in {IF scored1 = << >> \/ sort_raises THEN << >>
                  ELSE dedup_scored(scored1, r.query, r.params)} :
  \E reason \in {abstain_reason(r.candidates, scored1, scored2, r.params)} :
  \E chosen1 \in {IF sort_raises \/ reason # None THEN << >>
                  ELSE sort_chosen(mmr_select(scored2, select_k(r.params, scored2),
                                              r.params.mmr_lambda))} :
    /\ scored' = scored1
    /\ deduped' = scored2
    /\ chosen' = chosen1
    /\ IF sort_raises
         THEN pc' = "raised" /\ UNCHANGED resp
       ELSE IF reason # None
         THEN pc' = "returned" /\ resp' = abstain_response(reason)
       ELSE IF reasons_raise(chosen1, r.query)
         THEN pc' = "raised" /\ UNCHANGED resp
       ELSE /\ pc' = "returned"
            /\ \E items \in {ranked_items(chosen1, r.query)} :
                 resp' = RankResponse(FALSE, None, <<items[1]>>, Tail(items))

\* a call of rank on the request that arrived
Rank ==
  /\ pc = "start"
  /\ RankOn(req)
  /\ UNCHANGED <<req, arg, ret>>

Next == Rank

Spec == Init /\ [][Next]_vars

(***************************************************************************)
(* _norm_text applied on its own: to a text, then to its own result.       *)
(***************************************************************************)
MaxTextLen == 4

TextChars == {"a", "A", "1", ".", "/", "<", ">", " "}

Texts == UNION {[1..n -> TextChars] : n \in 0..MaxTextLen}

\* no request is being ranked
NoRank ==
  /\ req = None
  /\ scored = << >>
  /\ deduped = << >>
  /\ chosen = << >>
  /\ resp = RankResponse(FALSE, None, << >>, << >>)

InitNorm ==
  /\ arg \in Texts
  /\ ret = << >>
  /\ pc = "start"
  /\ NoRank

\* s = _norm_text(s), the first time on the argument
NormText ==
  /\ pc \in {"start", "once"}
  /\ ret' = Append(ret, norm_text(IF ret = << >> THEN arg ELSE ret[Len(ret)]))
  /\ pc' = IF pc = "start" THEN "once" ELSE "twice"
  /\ UNCHANGED <<req, scored, deduped, chosen, resp, arg>>

NextNorm == NormText

SpecNorm == InitNorm /\ [][NextNorm]_vars

(***************************************************************************)
(* The ingress normalizer of packages (QueryContext._normalize_packages,   *)
(* which Candidate._normalize_packages calls), applied on its own: to a    *)
(* list of strings, then to its own result.                                *)
(***************************************************************************)
MaxPkgLen == 3
MaxPkgs == 2

PkgChars == {"a", "A", " ", "=", ">", "~"}

PkgStrings == UNION {[1..n -> PkgChars] : n \in 0..MaxPkgLen}

PackageLists == UNION {[1..n -> PkgStrings] : n \in 0..MaxPkgs}

\* x.find(sep) for a separator of two characters, from i on (Len(x) + 1
\* when sep does not occur)
RECURSIVE FindSep(_, _, _)
FindSep(x, sep, i) ==
  IF i + 1 > Len(x) THEN Len(x) + 1
  ELSE IF x[i] = sep[1] /\ x[i + 1] = sep[2] THEN i
  ELSE FindSep(x, sep, i + 1)

\* x.split(sep)[0]
SplitHead(x, sep) == Slice(x, 1, FindSep(x, sep, 1) - 1)

\* x.split("==")[0].split(">=")[0].split("<=")[0].split("~=")[0]
strip_version(x) ==
  SplitHead(SplitHead(SplitHead(SplitHead(x, <<"=", "=">>), <<">", "=">>),
                      <<"<", "=">>), <<"~", "=">>)

\* the first loop: the list `norm`
RECURSIVE NormEntries(_)
NormEntries(v) ==
  IF v = << >> THEN << >>
  ELSE LET x == Lower(Strip(Head(v)))
       IN IF x = << >> THEN NormEntries(Tail(v))
          ELSE <<strip_version(x)>> \o NormEntries(Tail(v))

\* the second loop: unique while preserving order
RECURSIVE UniqueInOrder(_, _)
UniqueInOrder(norm, out) ==
  IF norm = << >> THEN out
  ELSE UniqueInOrder(Tail(norm),
                     IF Head(norm) \in SetOf(out) THEN out ELSE Append(out, Head(norm)))

normalize_packages(v) == UniqueInOrder(NormEntries(v), << >>)

InitPkg ==
  /\ arg \in PackageLists
  /\ ret = << >>
  /\ pc = "start"
  /\ NoRank

\* packages = _normalize_packages(packages), the first time on the argument
NormalizePackages ==
  /\ pc \in {"start", "once"}
  /\ ret' = Append(ret, normalize_packages(IF ret = << >> THEN arg ELSE ret[Len(ret)]))
  /\ pc' = IF pc = "start" THEN "once" ELSE "twice"
  /\ UNCHANGED <<req, scored, deduped, chosen, resp, arg>>

NextPkg == NormalizePackages

SpecPkg == InitPkg /\ [][NextPkg]_vars

(***************************************************************************)
(* The boundary: POST /rank validates the body against RankRequest before  *)
(* rank_endpoint runs.  A JSON object is modelled by the set of its keys;  *)
(* every model class has extra="forbid".                                   *)
(***************************************************************************)
MaxBodyCands == 2

RankParamsFields ==
  {"k", "mmr_lambda", "confidence_floor", "recency_half_life_days",
   "skeleton_filter_threshold", "allow_repeat_depth", "allow_repeat_min_hours",
   "success_bonus_alpha"}

\* the fields of QueryContext without a default
QueryContextRequired ==
  {"student_id", "pemType", "pemSkeleton", "timestamp", "activeFile_hash",
   "workingDirectory_hash", "pythonVersion"}

QueryContextFields ==
  QueryContextRequired \cup
  {"directoryTree", "packages", "resolutionDepth", "current_pem_point_id", "code_slice"}

\* the fields of Candidate without a default
CandidateRequired ==
  {"id", "vector_similarity", "pemSkeleton", "timestamp", "activeFile_hash",
   "workingDirectory_hash", "pythonVersion"}

CandidateFields ==
  CandidateRequired \cup {"directoryTree", "packages", "resolutionDepth", "activeFile_ext"}

RankRequestFields == {"params", "query", "candidates"}

\* the bodies a client may send: each object has its required keys (the top
\* level may lack params) plus any of a few more keys, declared or not
Bodies ==
  [top : {RankRequestFields, RankRequestFields \cup {"debug"}, {"query", "candidates"}},
   params : SUBSET {"k", "mmr_lambda", "verbose"},
   query : {QueryContextRequired \cup more :
              more \in SUBSET {"resolutionDepth", "current_pem_point_id", "code_slice", "vector"}}
           \cup {QueryContextRequired \ {"student_id"}},
   candidates : UNION {[1..n -> {CandidateRequired \cup more :
                                   more \in SUBSET {"activeFile_ext", "vector"}}]
                       : n \in 0..MaxBodyCands}]

\* validation of one object against a model class with extra="forbid"
model_validate(keys, fields, required) ==
  /\ keys \subseteq fields
  /\ required \subseteq keys

\* Candidate whose extra keys are ignored (the default of pydantic)
CandidateValid_extra_ignored(keys) == CandidateRequired \subseteq keys

CandidateValid(keys) == model_validate(keys, CandidateFields, CandidateRequired)

RankRequestValid(body) ==
  /\ model_validate(body.top, RankRequestFields, RankRequestFields)
  /\ model_validate(body.params, RankParamsFields, {})
  /\ model_validate(body.query, QueryContextFields, QueryContextRequired)
  /\ \A i \in 1..Len(body.candidates) : CandidateValid(body.candidates[i])

InitIngress ==
  /\ arg \in Bodies
  /\ ret = << >>
  /\ pc = "start"
  /\ NoRank

\* POST /rank: a body that fails validation is answered 422 and
\* rank_endpoint, which calls rank_impl, does not run
RankEndpoint ==
  /\ pc = "start"
  /\ ret' = IF RankRequestValid(arg)
              THEN <<[status |-> 200, core_invoked |-> TRUE]>>
              ELSE <<[status |-> 422, core_invoked |-> FALSE]>>
  /\ pc' = "responded"
  /\ UNCHANGED <<req, scored, deduped, chosen, resp, arg>>

NextIngress == RankEndpoint

SpecIngress == InitIngress /\ [][NextIngress]_vars

(***************************************************************************)
(* score_candidate applied on its own to two candidates that differ only   *)
(* in their timestamps, a whole number of half-lives from the query's.     *)
(***************************************************************************)
MaxHalfLivesAgo == 3

RecencyHalfLives == {1, 2, 14}

\* cand with its timestamp j half-lives before the query's
AtAge(cand, query, j, half_life_days, aware) ==
  [cand EXCEPT !.timestamp = Timestamp(query.timestamp.t - j * 24 * half_life_days, aware)]

RecencyInputs ==
  { [query |-> q,
     params |-> [DefaultParams EXCEPT !.recency_half_life_days = h],
     a |-> AtAge(c, q, ja, h, wa),
     b |-> AtAge(c, q, jb, h, wb)] :
      q \in QueryContexts, h \in RecencyHalfLives, c \in CandidatePool,
      ja \in (-1)..MaxHalfLivesAgo, jb \in (-1)..MaxHalfLivesAgo,
      wa \in BOOLEAN, wb \in BOOLEAN }

InitRecency ==
  /\ arg \in RecencyInputs
  /\ ret = << >>
  /\ pc = "start"
  /\ NoRank

\* [score_candidate(query, c, params) for c in (a, b)]
ScorePair ==
  /\ pc = "start"
  /\ ret' = <<score_features(compute_features(arg.query, arg.a, arg.params),
                             arg.query, arg.a, arg.params),
              score_features(compute_features(arg.query, arg.b, arg.params),
                             arg.query, arg.b, arg.params)>>
  /\ pc' = "scored"
  /\ UNCHANGED <<req, scored, deduped, chosen, resp, arg>>

NextRecency == ScorePair

SpecRecency == InitRecency /\ [][NextRecency]_vars

(***************************************************************************)
(* mmr_select applied on its own to the lists dedup_scored returns, with   *)
(* any k and lambda.                                                       *)
(***************************************************************************)
MaxMmrK == 3

MmrLambdas == {0, 300, 700, 1000}

\* the deduped lists of the requests whose params are the defaults, but for
\* the two of the repeat rule
DedupedLists ==
  { dedup_scored(score_all(r), r.query, r.params) :
      r \in { x \in [params : {[DefaultParams EXCEPT !.allow_repeat_depth = d,
                                                     !.allow_repeat_min_hours = h] :
                                 d \in {0, 3}, h \in {0, 24}},
                     query : QueryContexts,
                     candidates : CandidateLists] : ~dedup_raises(score_all(x)) } }

InitMmr ==
  /\ arg \in [scored : DedupedLists, k : 0..MaxMmrK, lamb : MmrLambdas]
  /\ ret = << >>
  /\ pc = "start"
  /\ NoRank

\* chosen = mmr_select(scored, k=k, lamb=lamb)
MmrSelect ==
  /\ pc = "start"
  /\ ret' = <<mmr_select(arg.scored, arg.k, arg.lamb)>>
  /\ pc' = "selected"
  /\ UNCHANGED <<req, scored, deduped, chosen, resp, arg>>

NextMmr == MmrSelect

SpecMmr == InitMmr /\ [][NextMmr]_vars

(***************************************************************************)
(* score_candidate applied on its own to one candidate, over every tier of *)
(* the reliability multipliers, every resolutionDepth and three values of  *)
(* success_bonus_alpha.                                                    *)
(***************************************************************************)
Str_abcde == <<"a", " ", "b", " ", "c", " ", "d", "e">>
Str_abc == <<"a", " ", "b", " ", "c">>

ScoreCandidates ==
  { Candidate("a", vs, skel, ts, fh, proj[1], proj[2], <<"p">>, Str_3_11, depth) :
      vs \in {0, 500, 1000},
      skel \in {Str_abcd, Str_abcde, Str_abc, Str_abcv, Str_xy},
      ts \in {Timestamp(48, TRUE), Timestamp(24, FALSE)},
      fh \in {"F", "G"},
      proj \in {<<"W", <<"m">>>>, <<"V", <<"m", "o">>>>, <<"V", << >>>>},
      depth \in {NoDepth, 0, 1, 2, 3} }

ScoreParams ==
  { [DefaultParams EXCEPT !.success_bonus_alpha = al, !.skeleton_filter_threshold = th] :
      al \in {0, 30, 200}, th \in {0, 600} }

InitScore ==
  /\ arg \in [query : QueryContexts, cand : ScoreCandidates, params : ScoreParams]
  /\ ret = << >>
  /\ pc = "start"
  /\ NoRank

\* score_candidate(query, cand, params); its local wprime is kept next to
\* the Scored it returns
ScoreCandidate ==
  /\ pc = "start"
  /\ \E f \in {compute_features(arg.query, arg.cand, arg.params)} :
       ret' = <<score_features(f, arg.query, arg.cand, arg.params),
                effective_weights(f, arg.query, arg.cand)>>
  /\ pc' = "scored"
  /\ UNCHANGED <<req, scored, deduped, chosen, resp, arg>>

NextScore == ScoreCandidate

SpecScore == InitScore /\ [][NextScore]_vars

(***************************************************************************)
(* candidate_similarity applied on its own to two scored candidates, in    *)
(* both orders.                                                            *)
(***************************************************************************)
SimCandidates ==
  { Candidate("a", 500, skel, Timestamp(48, TRUE), fh, "W", <<"m">>, pk, Str_3_11, 2) :
      skel \in {Str_abcv, Str_Abcw, Str_xy},
      fh \in {"", "F", "G"},
      pk \in {<< >>, <<"p">>, <<"q">>, <<"p", "q">>} }

\* the Scored of the candidates, for one query and the default params
SimScored ==
  LET query == CHOOSE q \in QueryContexts : q.pemSkeleton = Str_a1 /\ q.timestamp.aware
  IN { score_features(compute_features(query, c, DefaultParams), query, c, DefaultParams) :
         c \in SimCandidates }

InitSim ==
  /\ arg \in [a : SimScored, b : SimScored]
  /\ ret = << >>
  /\ pc = "start"
  /\ NoRank

\* candidate_similarity(a, b), then candidate_similarity(b, a)
CandidateSimilarity ==
  /\ pc = "start"
  /\ \E a_n \in {norm_text(arg.a.cand.pemSkeleton)} :
     \E b_n \in {norm_text(arg.b.cand.pemSkeleton)} :
       ret' = <<similarity_of(arg.a, arg.b, a_n, b_n), similarity_of(arg.b, arg.a, b_n, a_n)>>
  /\ pc' = "compared"
  /\ UNCHANGED <<req, scored, deduped, chosen, resp, arg>>

NextSim == CandidateSimilarity

SpecSim == InitSim /\ [][NextSim]_vars

(***************************************************************************)
(* rank_items(input_data).  ret holds what the call gives: a record of     *)
(* kind "minimal" or "full" when it returns, of kind "raised" with the     *)
(* class of the exception when it raises.  pc tells what became of rank:   *)
(* "skipped" when it was not called.                                       *)
(***************************************************************************)
Raised(exc) == [kind |-> "raised", exc |-> exc]

\* the list `scores` of the minimal path, before the sort (a tuple
\* (cid, cosine) is a record with the fields id and score)
cosine_pairs(input) ==
  [i \in 1..Len(input.candidates) |->
     [id |-> input.candidates[i].id,
      score |-> CosineTable[input.current_vector][VectorOrEmpty(input.candidates[i])]]]

\* {cid: float(s) for cid, s in scores}: a later pair replaces an earlier one
scores_dict(pairs) ==
  [cid \in {pairs[i].id : i \in 1..Len(pairs)} |->
     pairs[CHOOSE i \in 1..Len(pairs) :
             /\ pairs[i].id = cid
             /\ \A j \in (i + 1)..Len(pairs) : pairs[j].id # cid].score]

\* minimal_path with the pairs left in the order of the input
minimal_path_unsorted(input) ==
  IF \E i \in 1..Len(input.candidates) :
       \/ "id" \notin input.candidates[i].keys
       \/ ~VectorIsList(input.candidates[i])
       \/ cosine_raises(input.current_vector, input.candidates[i].vector)
    THEN Raised("ValueError")
  ELSE LET scores == cosine_pairs(input)
       IN [kind |-> "minimal",
           ranked_ids |-> [i \in 1..Len(scores) |-> scores[i].id],
           scores |-> scores_dict(scores)]

\* the minimal cosine-only path
minimal_path(input) ==
  IF \E i \in 1..Len(input.candidates) :
       \/ "id" \notin input.candidates[i].keys
       \/ ~VectorIsList(input.candidates[i])
       \/ cosine_raises(input.current_vector, input.candidates[i].vector)
    THEN Raised("ValueError")
  ELSE LET scores == SortDesc(cosine_pairs(input), "score")
       IN [kind |-> "minimal",
           ranked_ids |-> [i \in 1..Len(scores) |-> scores[i].id],
           scores |-> scores_dict(scores)]

\* the exception of the loop that builds the Candidate models: that of the
\* first candidate dict that has no id or does not validate (None: no
\* exception)
RECURSIVE build_exception(_, _)
build_exception(cands, curr) ==
  IF cands = << >> THEN None
  ELSE IF payload_key_error(Head(cands)) THEN "KeyError"
  ELSE IF payload_invalid(Head(cands), curr) THEN "ValidationError"
  ELSE build_exception(Tail(cands), curr)

\* the safety fallback: the ids of the candidates by cosine, best_id left out
fallback_alternates(input, best_id) ==
  LET sorted == SortDesc(cosine_pairs(input), "score")
      Other(x) == x.id # best_id
      rest == SelectSeq(sorted, Other)
  IN [i \in 1..Len(rest) |-> [id |-> rest[i].id]]

\* the safety fallback whenever the ranker left a candidate out
full_path_out_fill(input, rank_pc, response) ==
  IF rank_pc = "raised" THEN Raised("TypeError")
  ELSE IF response.best # << >> /\ Len(response.alternates) + 1 < Len(input.candidates)
    THEN IF \E i \in 1..Len(input.candidates) :
              cosine_raises(input.current_vector, VectorOrEmpty(input.candidates[i]))
           THEN Raised("ValueError")
           ELSE [kind |-> "full", abstain |-> response.abstain, reason |-> response.reason,
                 best |-> response.best,
                 alternates |-> fallback_alternates(input, response.best[1].id)]
  ELSE [kind |-> "full", abstain |-> response.abstain, reason |-> response.reason,
        best |-> response.best, alternates |-> response.alternates]

\* what the full path gives once rank has returned response (or raised)
full_path_out(input, rank_pc, response) ==
  IF rank_pc = "raised" THEN Raised("TypeError")
  ELSE IF response.best # << >> /\ response.alternates = << >>
    THEN IF \E i \in 1..Len(input.candidates) :
              cosine_raises(input.current_vector, VectorOrEmpty(input.candidates[i]))
           THEN Raised("ValueError")
           ELSE [kind |-> "full", abstain |-> response.abstain, reason |-> response.reason,
                 best |-> response.best,
                 alternates |-> fallback_alternates(input, response.best[1].id)]
  ELSE [kind |-> "full", abstain |-> response.abstain, reason |-> response.reason,
        best |-> response.best, alternates |-> response.alternates]

RankItems ==
  /\ pc = "start"
  /\ IF ~arg.current_vector_is_list \/ arg.candidates = << >>
       THEN /\ ret' = <<Raised("ValueError")>>
            /\ pc' = "skipped"
            /\ UNCHANGED <<req, scored, deduped, chosen, resp>>
     ELSE IF ~meta_flag(arg)
       THEN /\ ret' = <<minimal_path(arg)>>
            /\ pc' = "skipped"
            /\ UNCHANGED <<req, scored, deduped, chosen, resp>>
     ELSE IF build_exception(arg.candidates, arg.current_vector) # None
       THEN /\ ret' = <<Raised(build_exception(arg.candidates, arg.current_vector))>>
            /\ pc' = "skipped"
            /\ UNCHANGED <<req, scored, deduped, chosen, resp>>
     ELSE \E r \in {build_request(arg)} :
            /\ req' = r
            /\ RankOn(r)
            /\ ret' = <<full_path_out(arg, pc', resp')>>
  /\ UNCHANGED arg

NextAdapter == RankItems

InitMinimal ==
  /\ arg \in MinimalInputs
  /\ ret = << >>
  /\ pc = "start"
  /\ NoRank

\* rank_items on the inputs of the minimal path
SpecMinimal == InitMinimal /\ [][NextAdapter]_vars

InitFull ==
  /\ arg \in FullInputs
  /\ ret = << >>
  /\ pc = "start"
  /\ NoRank

\* rank_items on the inputs of the full path
SpecFull == InitFull /\ [][NextAdapter]_vars

(***************************************************************************)
(* rank called twice: on a request, then on the request that differs from  *)
(* it in params.k and params.mmr_lambda only.                              *)
(***************************************************************************)
\* the values of k and mmr_lambda of the second request
SelectionParams ==
  { s \in [k : 1..MaxK, mmr_lambda : {0, 700, 1000}] :
      s.k # DefaultParams.k \/ s.mmr_lambda # DefaultParams.mmr_lambda }

\* the first request has the default k and mmr_lambda
InitPair ==
  /\ req \in { r \in RankRequests : /\ r.params.k = DefaultParams.k
                                    /\ r.params.mmr_lambda = DefaultParams.mmr_lambda }
  /\ arg \in SelectionParams
  /\ pc = "start"
  /\ scored = << >>
  /\ deduped = << >>
  /\ chosen = << >>
  /\ resp = RankResponse(FALSE, None, << >>, << >>)
  /\ ret = << >>

\* the second call: ret keeps the outcome of the first one
RankAgain ==
  /\ pc \in {"returned", "raised"}
  /\ ret = << >>
  /\ ret' = <<[pc |-> pc, resp |-> resp]>>
  /\ \E r \in {[req EXCEPT !.params.k = arg.k, !.params.mmr_lambda = arg.mmr_lambda]} :
       req' = r /\ RankOn(r)
  /\ UNCHANGED arg

NextPair == Rank \/ RankAgain

SpecPair == InitPair /\ [][NextPair]_vars

(***************************************************************************)
(* dedup_scored applied on its own to a list of unfiltered scored          *)
(* candidates, with each setting of the repeat rule.                       *)
(***************************************************************************)
MaxDedupLen == 3

DedupQuery == CHOOSE q \in QueryContexts : q.pemSkeleton = Str_abcd /\ q.timestamp.aware

\* the Scored of the candidates, for one query
DedupScored ==
  { score_features(compute_features(DedupQuery, c, DefaultParams), DedupQuery, c, DefaultParams) :
      c \in DedupCandidates }

DedupParams ==
  { [DefaultParams EXCEPT !.allow_repeat_depth = d, !.allow_repeat_min_hours = h] :
      d \in {0, 3}, h \in {0, 24} }

InitDedup ==
  /\ arg \in [scored : UNION {[1..n -> DedupScored] : n \in 1..MaxDedupLen},
              params : DedupParams]
  /\ ret = << >>
  /\ pc = "start"
  /\ NoRank

\* scored = dedup_scored(scored, query, params)
DedupScoredCall ==
  /\ pc = "start"
  /\ IF dedup_raises(arg.scored)
       THEN ret' = <<Raised("TypeError")>> /\ pc' = "raised"
       ELSE ret' = <<dedup_scored(arg.scored, DedupQuery, arg.params)>> /\ pc' = "deduped"
  /\ UNCHANGED <<req, scored, deduped, chosen, resp, arg>>

NextDedup == DedupScoredCall

SpecDedup == InitDedup /\ [][NextDedup]_vars

(***************************************************************************)
(* rank statement by statement, with its lists as objects.  arg.heap holds *)
(* the present content of each object: the request's candidates, query and *)
(* params, the filtered list `scored` that dedup_scored is given, the list *)
(* `result` it returns (which mmr_select is given), and `remaining` and    *)
(* `selected` of mmr_select.  req, scored and deduped keep what the        *)
(* request, the argument of dedup_scored and the argument of mmr_select    *)
(* were when they were passed.                                             *)
(***************************************************************************)
Heap(r) ==
  [cands |-> r.candidates, query |-> r.query, params |-> r.params,
   scored |-> << >>, result |-> << >>, remaining |-> << >>, selected |-> << >>]

InitFrame ==
  /\ req \in RankRequests
  /\ arg = [heap |-> Heap(req), remaining |-> None, k |-> 0]
  /\ pc = "start"
  /\ scored = << >>
  /\ deduped = << >>
  /\ chosen = << >>
  /\ resp = RankResponse(FALSE, None, << >>, << >>)
  /\ ret = << >>

\* the first statements of rank, up to the call of dedup_scored: the two
\* comprehensions make new lists
FrameScore ==
  /\ pc = "start"
  /\ \E r \in {[params |-> arg.heap.params, query |-> arg.heap.query,
                candidates |-> arg.heap.cands]} :
     \E scored1 \in {score_all(r)} :
       /\ scored' = scored1
       /\ arg' = [arg EXCEPT !.heap.scored = scored1]
       /\ IF r.candidates = << >>
            THEN pc' = "returned" /\ resp' = abstain_response("no_candidates")
          ELSE IF scored1 = << >>
            THEN pc' = "returned" /\ resp' = abstain_response("all_filtered")
          ELSE pc' = "dedup" /\ UNCHANGED resp
  /\ UNCHANGED <<req, deduped, chosen, ret>>

\* scored = dedup_scored(scored, query, params) and the two tests that
\* follow it: the groups, keep and result are lists made by dedup_scored,
\* and the two sorts are applied to them
FrameDedup ==
  /\ pc = "dedup"
  /\ IF dedup_raises(arg.heap.scored)
       THEN pc' = "raised" /\ UNCHANGED <<arg, deduped, resp>>
       ELSE \E result \in {dedup_scored(arg.heap.scored, arg.heap.query, arg.heap.params)} :
              /\ arg' = [arg EXCEPT !.heap.result = result]
              /\ deduped' = result
              /\ IF result = << >>
                   THEN pc' = "returned" /\ resp' = abstain_response("all_deduped")
                 ELSE IF result[1].score < arg.heap.params.confidence_floor
                   THEN pc' = "returned" /\ resp' = abstain_response("low_confidence")
                 ELSE pc' = "select" /\ UNCHANGED resp
  /\ UNCHANGED <<req, scored, chosen, ret>>

\* the object `remaining` is bound to, were it `remaining = scored`
remaining_binding_alias(scored_object) == scored_object

\* remaining = scored[:] binds remaining to a new list
remaining_binding(scored_object) == "remaining"

\* k = max(1, min(params.k, len(scored))) and the entry of mmr_select
FrameMmrEnter ==
  /\ pc = "select"
  /\ \E object \in {remaining_binding("result")} :
       arg' = [arg EXCEPT !.k = select_k(arg.heap.params, arg.heap.result),
                          !.remaining = object,
                          !.heap = [[@ EXCEPT ![object] = arg.heap.result]
                                      EXCEPT !.selected = << >>]]
  /\ pc' = "mmr"
  /\ UNCHANGED <<req, scored, deduped, chosen, resp, ret>>

\* one turn of `while remaining and len(selected) < k`
FrameMmrPick ==
  /\ pc = "mmr"
  /\ \E remaining \in {arg.heap[arg.remaining]} :
     \E selected \in {arg.heap.selected} :
       IF remaining = << >> \/ Len(selected) >= arg.k
         THEN pc' = "sort" /\ UNCHANGED arg
         ELSE \E best_idx \in {IF selected = << >> THEN 1
                               ELSE BestIdx(remaining, selected, arg.heap.params.mmr_lambda)} :
                /\ arg' = [arg EXCEPT !.heap = [[@ EXCEPT !.selected = Append(selected, remaining[best_idx])]
                                                  EXCEPT ![arg.remaining] = Without(remaining, best_idx)]]
                /\ pc' = "mmr"
  /\ UNCHANGED <<req, scored, deduped, chosen, resp, ret>>

\* chosen.sort(...) on the list mmr_select returned, then the response
FrameSort ==
  /\ pc = "sort"
  /\ \E chosen1 \in {sort_chosen(arg.heap.selected)} :
       /\ arg' = [arg EXCEPT !.heap.selected = chosen1]
       /\ chosen' = chosen1
       /\ IF reasons_raise(chosen1, arg.heap.query)
            THEN pc' = "raised" /\ UNCHANGED resp
            ELSE /\ pc' = "returned"
                 /\ \E items \in {ranked_items(chosen1, arg.heap.query)} :
                      resp' = RankResponse(FALSE, None, <<items[1]>>, Tail(items))
  /\ UNCHANGED <<req, scored, deduped, ret>>

NextFrame == FrameScore \/ FrameDedup \/ FrameMmrEnter \/ FrameMmrPick \/ FrameSort

SpecFrame == InitFrame /\ [][NextFrame]_vars

(***************************************************************************)
(* Properties of rank                                                      *)
(***************************************************************************)

\* C1: every response returned by rank is well-shaped: an abstention has no
\* best, no alternates and one of the four reasons; a recommendation has a
\* best and no reason.
C1_ResponseShape ==
  pc = "returned" =>
    /\ resp.abstain =>
         /\ resp.best = << >>
         /\ resp.alternates = << >>
         /\ resp.reason \in {"no_candidates", "all_filtered", "all_deduped", "low_confidence"}
    /\ ~resp.abstain =>
         /\ Len(resp.best) = 1
         /\ resp.reason = None

C1_Witness ==
  /\ pc = "returned"
  /\ resp.abstain
  /\ resp.reason = "low_confidence"
  /\ Len(req.candidates) >= 2

\* C2: when the skeleton of the query is informative, a candidate whose
\* skeleton feature is strictly below skeleton_filter_threshold is neither
\* best nor an alternate.
C2_HardFilter ==
  (pc = "returned" /\ skeleton_informative(req.query.pemSkeleton)) =>
    \A j \in 1..Len(req.candidates) :
      skeleton_similarity(req.query.pemSkeleton, req.candidates[j].pemSkeleton)
          < req.params.skeleton_filter_threshold
        => /\ \A i \in 1..Len(chosen) : chosen[i].cand # req.candidates[j]
           /\ \A i \in 1..Len(resp.best \o resp.alternates) :
                (resp.best \o resp.alternates)[i].features["skeleton"]
                  >= round6(req.params.skeleton_filter_threshold)

\* a filtered candidate has a larger vector similarity than an emitted one
C2_Witness ==
  /\ pc = "returned"
  /\ ~resp.abstain
  /\ skeleton_informative(req.query.pemSkeleton)
  /\ \E j \in 1..Len(req.candidates), i \in 1..Len(chosen) :
       /\ skeleton_similarity(req.query.pemSkeleton, req.candidates[j].pemSkeleton)
            < req.params.skeleton_filter_threshold
       /\ req.candidates[j].vector_similarity > chosen[i].cand.vector_similarity

\* C3 (as stated): two emitted items share the normalized skeleton and a
\* non-empty activeFile_hash only when the lower-ranked of the two is an
\* allowed repeat of the higher-ranked one (resolutionDepth >=
\* allow_repeat_depth and at least allow_repeat_min_hours older), and no
\* three emitted items share such a key.
C3_LowerRankedIsRepeat ==
  LET SameKey(x, y) == /\ x.cand.activeFile_hash # ""
                       /\ x.cand.activeFile_hash = y.cand.activeFile_hash
                       /\ norm_text(x.cand.pemSkeleton) = norm_text(y.cand.pemSkeleton)
      Repeat(x, y) == /\ x.cand.resolutionDepth # NoDepth
                      /\ x.cand.resolutionDepth >= req.params.allow_repeat_depth
                      /\ hours_between(y.cand.timestamp, x.cand.timestamp)
                           >= req.params.allow_repeat_min_hours
  IN (pc = "returned" /\ ~resp.abstain) =>
       /\ \A i, j \in 1..Len(chosen) :
            (i < j /\ SameKey(chosen[i], chosen[j])) => Repeat(chosen[j], chosen[i])
       /\ \A i, j, l \in 1..Len(chosen) :
            (i < j /\ j < l) => ~(SameKey(chosen[i], chosen[j]) /\ SameKey(chosen[j], chosen[l]))

\* C3 (amended): two emitted items share the normalized skeleton and a
\* non-empty activeFile_hash only when one of the two is an allowed repeat
\* of the other; the repeat is the lower-ranked one unless the two scores are
\* equal; no three emitted items share such a key.
C3_OneIsRepeat ==
  LET SameKey(x, y) == /\ x.cand.activeFile_hash # ""
                       /\ x.cand.activeFile_hash = y.cand.activeFile_hash
                       /\ norm_text(x.cand.pemSkeleton) = norm_text(y.cand.pemSkeleton)
      Repeat(x, y) == /\ x.cand.resolutionDepth # NoDepth
                      /\ x.cand.resolutionDepth >= req.params.allow_repeat_depth
                      /\ hours_between(y.cand.timestamp, x.cand.timestamp)
                           >= req.params.allow_repeat_min_hours
  IN (pc = "returned" /\ ~resp.abstain) =>
       /\ \A i, j \in 1..Len(chosen) :
            (i < j /\ SameKey(chosen[i], chosen[j])) =>
              \/ Repeat(chosen[j], chosen[i])
              \/ /\ chosen[i].score = chosen[j].score
                 /\ Repeat(chosen[i], chosen[j])
       /\ \A i, j, l \in 1..Len(chosen) :
            (i < j /\ j < l) => ~(SameKey(chosen[i], chosen[j]) /\ SameKey(chosen[j], chosen[l]))

C3_Witness ==
  /\ pc = "returned"
  /\ ~resp.abstain
  /\ Len(deduped) < Len(scored)
  /\ \E i, j \in 1..Len(chosen) :
       /\ i < j
       /\ chosen[i].cand.activeFile_hash # ""
       /\ chosen[i].cand.activeFile_hash = chosen[j].cand.activeFile_hash
       /\ norm_text(chosen[i].cand.pemSkeleton) = norm_text(chosen[j].cand.pemSkeleton)
       /\ chosen[i].cand.pemSkeleton # chosen[j].cand.pemSkeleton

\* C4: when some candidate survives the hard filter, rank abstains with
\* low_confidence if the largest surviving score is below confidence_floor
\* and does not abstain otherwise.
C4_AbstentionTrigger ==
  LET top == CHOOSE m \in {scored[i].score : i \in 1..Len(scored)} :
               \A i \in 1..Len(scored) : scored[i].score <= m
  IN (pc = "returned" /\ scored # << >>) =>
       /\ top < req.params.confidence_floor =>
            resp.abstain /\ resp.reason = "low_confidence"
       /\ top >= req.params.confidence_floor => ~resp.abstain

C4_Witness ==
  /\ pc = "returned"
  /\ Len(scored) >= 2
  /\ scored[1].score < req.params.confidence_floor
  /\ scored[2].score >= req.params.confidence_floor
  /\ ~resp.abstain

\* C5: the reason of an abstention is that of the first stage that fails:
\* no_candidates exactly for an empty candidate list, all_filtered exactly
\* for a non-empty list whose candidates are all hard-filtered (whatever the
\* floor), and low_confidence only when some candidate passed the filter.
C5_ReasonOrder ==
  LET Filtered(c) == /\ skeleton_informative(req.query.pemSkeleton)
                     /\ skeleton_similarity(req.query.pemSkeleton, c.pemSkeleton)
                          < req.params.skeleton_filter_threshold
      AllFiltered == \A i \in 1..Len(req.candidates) : Filtered(req.candidates[i])
  IN pc = "returned" =>
       /\ req.candidates = << >> => resp.abstain /\ resp.reason = "no_candidates"
       /\ (req.candidates # << >> /\ AllFiltered) =>
            resp.abstain /\ resp.reason = "all_filtered"
       /\ resp.reason = "no_candidates" => req.candidates = << >>
       /\ resp.reason = "all_filtered" => req.candidates # << >> /\ AllFiltered
       /\ resp.reason = "low_confidence" => req.candidates # << >> /\ ~AllFiltered

C5_Witness ==
  /\ pc = "returned"
  /\ resp.reason = "all_filtered"
  /\ req.params.confidence_floor = 0
  /\ Len(req.candidates) >= 2

\* C6: the ids of best and of the alternates are pairwise distinct and each
\* is the id of a candidate of the request.
C6_DistinctIds ==
  LET items == resp.best \o resp.alternates
  IN (pc = "returned" /\ ~resp.abstain) =>
       /\ \A i, j \in 1..Len(items) : i # j => items[i].id # items[j].id
       /\ \A i \in 1..Len(items) :
            \E j \in 1..Len(req.candidates) : req.candidates[j].id = items[i].id

\* C7: a recommendation has min(k, number of candidates left by the hard
\* filter and the dedupe) items: best and that many minus one alternates.
C7_OutputSize ==
  (pc = "returned" /\ ~resp.abstain) =>
    /\ 1 + Len(resp.alternates) = Min2(req.params.k, Len(deduped))
    /\ Len(resp.alternates) <= req.params.k - 1
    /\ req.params.k = 1 => resp.alternates = << >>
    /\ Len(deduped) = 1 => resp.alternates = << >>

C7_Witness ==
  /\ pc = "returned"
  /\ ~resp.abstain
  /\ req.params.k = 2
  /\ Len(deduped) = 3
  /\ Len(resp.alternates) = 1

\* C8: the scores of a recommendation are non-increasing from best through
\* the alternates.
C8_OutputOrder ==
  LET items == resp.best \o resp.alternates
  IN (pc = "returned" /\ ~resp.abstain) =>
       \A i, j \in 1..Len(items) : i < j => items[i].score >= items[j].score

\* the MMR picks were not in score order: the second pick scores less than
\* the third
C8_Witness ==
  /\ pc = "returned"
  /\ ~resp.abstain
  /\ Len(chosen) = 3
  /\ LET picks == mmr_select(deduped, 3, req.params.mmr_lambda)
     IN picks[2].score < picks[3].score

\* C9: every emitted score and every emitted feature lies in [0, 1]; the
\* sentinel of a filtered candidate is never emitted.
C9_Ranges ==
  LET items == resp.best \o resp.alternates
  IN pc = "returned" =>
       \A i \in 1..Len(items) :
         /\ 0 <= items[i].score /\ items[i].score <= MICRO
         /\ items[i].score # round6(FILTERED)
         /\ DOMAIN items[i].features = Channels
         /\ \A k \in Channels :
              0 <= items[i].features[k] /\ items[i].features[k] <= MICRO

\* the clamp is active: the weighted sum plus the success bonus exceeds 1
C9_Witness ==
  /\ pc = "returned"
  /\ ~resp.abstain
  /\ resp.best[1].score = MICRO
  /\ resp.best[1].features["packages"] < MICRO
  /\ req.params.success_bonus_alpha > 0

\* C10: rank returns a response for every request and never raises.
C10_NeverRaises == pc # "raised"

\* C11: when a dedupe group is made of two unfiltered candidates
\* and the older one has resolutionDepth >= allow_repeat_depth and is at
\* least allow_repeat_min_hours older than the other, dedup_scored keeps both,
\* whichever of the two has the higher score.
C11_BothKeptWhicheverScore ==
  LET InList(x) == \E i \in 1..Len(deduped) : deduped[i] = x
      Pair(i, j) == /\ dedup_key(scored[i].cand) = dedup_key(scored[j].cand)
                    /\ Cardinality({l \in 1..Len(scored) :
                         dedup_key(scored[l].cand) = dedup_key(scored[i].cand)}) = 2
                    /\ scored[i].cand.timestamp.t < scored[j].cand.timestamp.t
                    /\ scored[i].cand.resolutionDepth # NoDepth
                    /\ scored[i].cand.resolutionDepth >= req.params.allow_repeat_depth
                    /\ hours_between(scored[j].cand.timestamp, scored[i].cand.timestamp)
                         >= req.params.allow_repeat_min_hours
  IN (pc # "start" /\ ~dedup_raises(scored)) =>
       \A i, j \in 1..Len(scored) :
         Pair(i, j) => InList(scored[i]) /\ InList(scored[j])

\* C12: text normalization is idempotent: normalizing the normalized text
\* gives the normalized text again.
C12_NormIdempotent == pc = "twice" => ret[2] = ret[1]

\* C13: package normalization is idempotent: normalizing a normalized list
\* of packages gives the same list.
C13_PackagesIdempotent == pc = "twice" => ret[2] = ret[1]

\* C14: a normalized list of packages holds only lowercased names without a
\* version specifier (==, >=, <=, ~=), no empty string and no duplicate, in
\* the order of the first occurrences in the input.
C14_PackagesNormalForm ==
  LET out == ret[1]
      Seps == {<<"=", "=">>, <<">", "=">>, <<"<", "=">>, <<"~", "=">>}
      \* the name of an entry of the input
      Name(x) == strip_version(Lower(Strip(x)))
      \* the entries of the input that are not blank
      Present == {i \in 1..Len(arg) : Lower(Strip(arg[i])) # << >>}
      First(n) == CHOOSE i \in Present :
                    /\ Name(arg[i]) = n
                    /\ \A j \in Present : j < i => Name(arg[j]) # n
  IN pc = "once" =>
       /\ \A i \in 1..Len(out) :
            /\ out[i] = Lower(out[i])
            /\ \A sep \in Seps : FindSep(out[i], sep, 1) > Len(out[i])
            /\ out[i] # << >>
            /\ \E j \in Present : Name(arg[j]) = out[i]
       /\ \A i, j \in 1..Len(out) : i # j => out[i] # out[j]
       /\ \A i, j \in 1..Len(out) : i < j => First(out[i]) < First(out[j])

\* C15 (as stated): a request with a field that the documented request
\* schema does not list, at top level or inside params, query or a
\* candidate, is rejected and the core is not invoked.
C15_UndocumentedRejected ==
  LET DocQuery == QueryContextRequired \cup {"directoryTree", "packages", "resolutionDepth"}
      DocCand == CandidateRequired \cup {"directoryTree", "packages", "resolutionDepth"}
      Extra == \/ ~(arg.top \subseteq RankRequestFields)
               \/ ~(arg.params \subseteq RankParamsFields)
               \/ ~(arg.query \subseteq DocQuery)
               \/ \E i \in 1..Len(arg.candidates) : ~(arg.candidates[i] \subseteq DocCand)
  IN (pc = "responded" /\ Extra) =>
       ret[1].status = 422 /\ ~ret[1].core_invoked

\* C15 (amended): a request with a field other than the documented ones and
\* the optional helper fields current_pem_point_id and code_slice of the
\* query and activeFile_ext of a candidate is rejected and the core is not
\* invoked.
C15_UndeclaredRejected ==
  LET DocQuery == QueryContextRequired \cup {"directoryTree", "packages", "resolutionDepth"}
      DocCand == CandidateRequired \cup {"directoryTree", "packages", "resolutionDepth"}
      Extra == \/ ~(arg.top \subseteq RankRequestFields)
               \/ ~(arg.params \subseteq RankParamsFields)
               \/ ~(arg.query \subseteq DocQuery \cup {"current_pem_point_id", "code_slice"})
               \/ \E i \in 1..Len(arg.candidates) :
                    ~(arg.candidates[i] \subseteq DocCand \cup {"activeFile_ext"})
  IN (pc = "responded" /\ Extra) =>
       ret[1].status = 422 /\ ~ret[1].core_invoked

\* the only undeclared field sits in the second candidate, next to a helper
\* field, and the request is rejected
C15_Witness ==
  /\ pc = "responded"
  /\ arg.top = RankRequestFields
  /\ arg.params \subseteq RankParamsFields
  /\ arg.query = QueryContextRequired \cup {"code_slice"}
  /\ Len(arg.candidates) = 2
  /\ arg.candidates[1] = CandidateRequired
  /\ arg.candidates[2] = CandidateRequired \cup {"activeFile_ext", "vector"}
  /\ ret[1].status = 422

\* C17: for a fixed query timestamp and any half-life, a candidate that is
\* not older than another has a recency that is not smaller; the recency is
\* 1 for a candidate at or after the query; and however old a candidate is,
\* it gets the filtered sentinel only through the skeleton filter.
C17_RecencyMonotone ==
  LET now == arg.query.timestamp.t
      Filtered(x) == /\ x.features["skeleton"] < arg.params.skeleton_filter_threshold
                     /\ skeleton_informative(arg.query.pemSkeleton)
      Rec(x) == x.features["recency"]
  IN pc = "scored" =>
       /\ arg.a.timestamp.t >= arg.b.timestamp.t => Rec(ret[1]) >= Rec(ret[2])
       /\ \A i \in 1..2 :
            /\ ret[i].cand.timestamp.t >= now => Rec(ret[i]) = SCALE
            /\ 0 <= Rec(ret[i]) /\ Rec(ret[i]) <= SCALE
            /\ ret[i].score = FILTERED <=> Filtered(ret[i])
            /\ ~Filtered(ret[i]) => ret[i].score >= 0
       /\ (ret[1].score = FILTERED) <=> (ret[2].score = FILTERED)

\* a naive candidate one half-life of 14 days old and an aware one three
\* half-lives old: recencies 0.5 and 0.125, neither filtered
C17_Witness ==
  /\ pc = "scored"
  /\ arg.params.recency_half_life_days = 14
  /\ ~arg.a.timestamp.aware /\ arg.b.timestamp.aware
  /\ arg.a.timestamp.t > arg.b.timestamp.t
  /\ ret[1].features["recency"] = SCALE \div 2
  /\ ret[2].features["recency"] = SCALE \div 8
  /\ ret[1].score > ret[2].score
  /\ ret[2].score >= 0

C19_GreedyMmr ==
  LET input == arg.scored
      picks == ret[1]
      n == Len(input)
      m == Len(picks)
      Sims(x, j) == {candidate_similarity(x, picks[l]) : l \in 1..(j - 1)}
      Top(x, j) == CHOOSE v \in Sims(x, j) : \A w \in Sims(x, j) : w <= v
      \* the value of x at the j-th pick
      Val(x, j) == arg.lamb * x.score - (SCALE - arg.lamb) * Top(x, j)
      Greedy(pos) ==
        /\ \A i, j \in 1..m : i # j => pos[i] # pos[j]
        /\ \A j \in 1..m : picks[j] = input[pos[j]]
        /\ m >= 1 => pos[1] = 1
        /\ \A j \in 2..m :
             \A i \in 1..n :
               (\A l \in 1..(j - 1) : pos[l] # i) =>
                 \/ Val(input[i], j) < Val(picks[j], j)
                 \/ Val(input[i], j) = Val(picks[j], j) /\ pos[j] <= i
  IN pc = "selected" =>
       /\ m = IF arg.k <= 0 THEN 0 ELSE Min2(arg.k, n)
       /\ \E pos \in [1..m -> 1..n] : Greedy(pos)
       /\ m >= 1 => \A i \in 1..n : picks[1].score >= input[i].score

\* the second pick is the third item of the list, although the second item
\* scores more
C19_Witness ==
  /\ pc = "selected"
  /\ Len(arg.scored) = 3
  /\ Len(ret[1]) = 2
  /\ ret[1][2] = arg.scored[3]
  /\ arg.scored[2].score > arg.scored[3].score
  /\ arg.lamb > 0

\* C20: the effective weights are the base weights times the reliability
\* multipliers (skeleton 1.4, 1.2, 1.0, 0.7, 0.5 from the thresholds 0.999,
\* 0.9, 0.8, 0.6; project 1.2 when the workingDirectory_hash matches or the
\* feature is >= 0.5, else 0.9; 1.0 otherwise) divided by their sum, so they
\* are non-negative and sum to 1; the score of an unfiltered candidate is
\* the weighted sum of the features plus success_bonus_alpha * success
\* (0 for no depth or depth 0, 0.5 for depth 1, 1 from depth 2), clamped to
\* [0, 1]; the bonus adds at most success_bonus_alpha.
C20_ScoreFormula ==
  LET sc == ret[1]
      w == ret[2]
      f == sc.features
      alpha == arg.params.success_bonus_alpha
      depth == arg.cand.resolutionDepth
      \* the multipliers, in tenths, and the base weights, in hundredths
      Mult(k) ==
        IF k = "skeleton"
          THEN (IF f[k] >= 999 THEN 14 ELSE IF f[k] >= 900 THEN 12
                ELSE IF f[k] >= 800 THEN 10 ELSE IF f[k] >= 600 THEN 7 ELSE 5)
        ELSE IF k = "project"
          THEN (IF arg.cand.workingDirectory_hash = arg.query.workingDirectory_hash
                   \/ f[k] >= 500 THEN 12 ELSE 9)
        ELSE 10
      Base(k) == CASE k = "skeleton" -> 40 [] k = "vector" -> 35 [] k = "recency" -> 10
                   [] k = "project" -> 7 [] k = "file" -> 3 [] k = "packages" -> 3
                   [] k = "pyver" -> 2
      Raw == [k \in Channels |-> Base(k) * Mult(k)]
      Total == SumOver(Raw, Channels)
      success == IF depth = NoDepth \/ depth = 0 THEN 0
                 ELSE IF depth = 1 THEN SCALE \div 2 ELSE SCALE
      sum == SumOver([k \in Channels |-> w.num[k] * f[k]], Channels) \div w.den
      Clamp(x) == Max2(0, Min2(SCALE, x))
  IN pc = "scored" =>
       /\ w.den > 0
       /\ \A k \in Channels : w.num[k] >= 0 /\ w.num[k] * Total = Raw[k] * w.den
       /\ SumOver(w.num, Channels) = w.den
       /\ sc.score # FILTERED =>
            /\ sc.score = Clamp(sum + (alpha * success) \div SCALE)
            /\ sc.score - Clamp(sum) <= alpha
            /\ sc.score >= Clamp(sum)

\* skeleton multiplier 1.2, project multiplier 0.9, depth 1 and alpha 0.2:
\* the bonus adds 0.1 and the clamp is idle
C20_Witness ==
  /\ pc = "scored"
  /\ ret[1].features["skeleton"] >= 900 /\ ret[1].features["skeleton"] < 999
  /\ ret[1].features["project"] < 500
  /\ arg.cand.workingDirectory_hash # arg.query.workingDirectory_hash
  /\ arg.cand.resolutionDepth = 1
  /\ arg.params.success_bonus_alpha = 200
  /\ ret[1].score # FILTERED /\ ret[1].score < SCALE
  /\ ret[1].score =
       SumOver([k \in Channels |-> ret[2].num[k] * ret[1].features[k]], Channels) \div ret[2].den
         + 100

\* C21: when the normalized skeleton of the query has fewer than 4 tokens
\* [A-Za-z_]+, no candidate gets the filtered sentinel, whatever
\* skeleton_filter_threshold is, and rank does not answer all_filtered for a
\* non-empty candidate list.
C21_FilterDisabled ==
  LET s == norm_text(req.query.pemSkeleton)
      Letter(i) == s[i] \in LetterChars \cup {"_"}
      \* the positions where a token starts
      Starts == {i \in 1..Len(s) : Letter(i) /\ (i = 1 \/ ~Letter(i - 1))}
  IN (pc # "start" /\ Cardinality(Starts) < 4) =>
       /\ Len(scored) = Len(req.candidates)
       /\ \A i \in 1..Len(scored) : scored[i].score # FILTERED
       /\ (pc = "returned" /\ req.candidates # << >>) => resp.reason # "all_filtered"

\* the query has two tokens, the threshold is 1 and a candidate whose
\* skeleton feature is below 1 is emitted
C21_Witness ==
  /\ pc = "returned"
  /\ ~resp.abstain
  /\ req.query.pemSkeleton = Str_a1
  /\ req.params.skeleton_filter_threshold = SCALE
  /\ \E i \in 1..Len(chosen) : chosen[i].features["skeleton"] < SCALE \div 2

\* C22: the similarity of two candidates is 1.0 when they have the same
\* non-empty activeFile_hash, otherwise 0.8 when their normalized skeletons
\* are equal, otherwise the Jaccard of their packages; two empty hashes do
\* not give 1.0; and the similarity is the same in both orders.
C22_Similarity ==
  LET a == arg.a.cand
      b == arg.b.cand
      SameFile == a.activeFile_hash # "" /\ a.activeFile_hash = b.activeFile_hash
      SameSkeleton == norm_text(a.pemSkeleton) = norm_text(b.pemSkeleton)
      pa == {a.packages[i] : i \in 1..Len(a.packages)}
      pb == {b.packages[i] : i \in 1..Len(b.packages)}
      J == IF pa \cup pb = {} THEN 0
           ELSE (Cardinality(pa \cap pb) * SCALE) \div Cardinality(pa \cup pb)
  IN pc = "compared" =>
       /\ SameFile => ret[1] = SCALE
       /\ (~SameFile /\ SameSkeleton) => ret[1] = (8 * SCALE) \div 10
       /\ (~SameFile /\ ~SameSkeleton) => ret[1] = J
       /\ (a.activeFile_hash = "" /\ b.activeFile_hash = "" /\ ret[1] = SCALE) =>
            ~SameSkeleton /\ pa = pb
       /\ ret[1] = ret[2]

\* two candidates without a hash whose skeletons differ as written and are
\* equal once normalized: 0.8
C22_Witness ==
  /\ pc = "compared"
  /\ arg.a.cand.activeFile_hash = "" /\ arg.b.cand.activeFile_hash = ""
  /\ arg.a.cand.pemSkeleton # arg.b.cand.pemSkeleton
  /\ arg.a.cand.packages = arg.b.cand.packages
  /\ ret[1] = (8 * SCALE) \div 10

\* C23: the reasons of every emitted item are an ordered subsequence of
\* [signature match or signature similar, same file or same filetype,
\* package overlap, recent: Nd, success before] with exactly one tag
\* recent: Nd, N = max(0, whole days from the candidate's timestamp to the
\* query's); signature match and signature similar do not occur together;
\* same filetype is not emitted, the file feature being 0 or 1.
C23_ReasonsWellFormed ==
  LET items == resp.best \o resp.alternates
      Recent(i) ==
        "recent: " \o ToString(Max2(0, (req.query.timestamp.t - chosen[i].cand.timestamp.t) \div 24))
          \o "d"
      \* the slot of a tag of item i (0: not a tag of the list)
      SlotOf(tag, i) ==
        CASE tag \in {"signature match", "signature similar"} -> 1
          [] tag \in {"same file", "same filetype"} -> 2
          [] tag = "package overlap" -> 3
          [] tag = Recent(i) -> 4
          [] tag = "success before" -> 5
          [] OTHER -> 0
  IN (pc = "returned" /\ ~resp.abstain) =>
       /\ Len(items) = Len(chosen)
       /\ \A i \in 1..Len(items) :
            LET r == items[i].reasons
            IN /\ \A p \in 1..Len(r) : SlotOf(r[p], i) # 0
               /\ \A p, q \in 1..Len(r) : p < q => SlotOf(r[p], i) < SlotOf(r[q], i)
               /\ Cardinality({p \in 1..Len(r) : r[p] = Recent(i)}) = 1
               /\ \A p \in 1..Len(r) : r[p] # "same filetype"
               /\ items[i].features["file"] \in {0, MICRO}

\* one emitted item is a day older than the query and has no other tag;
\* another is later than the query and tagged recent: 0d, after package
\* overlap and before success before
C23_Witness ==
  /\ pc = "returned"
  /\ ~resp.abstain
  /\ \E i \in 1..Len(chosen) :
       /\ (resp.best \o resp.alternates)[i].reasons = <<"recent: 1d">>
       /\ chosen[i].cand.timestamp.t = req.query.timestamp.t - 24
  /\ \E i \in 1..Len(chosen) :
       /\ chosen[i].cand.timestamp.t > req.query.timestamp.t
       /\ (resp.best \o resp.alternates)[i].reasons
            = <<"package overlap", "recent: 0d", "success before">>

\* C24 (as stated): on the minimal path of rank_items (no current_meta, no
\* params, candidates with no other key than id and vector), ranked_ids
\* lists every candidate id exactly once in order of non-increasing cosine to
\* current_vector, equal cosines in input order, and scores maps each id to
\* that cosine; a candidate without an id or without a list vector, an empty
\* candidate list or a current_vector that is not a list makes the call
\* raise ValueError.
C24_MinimalPathAsStated ==
  LET cands == arg.candidates
      n == Len(cands)
      out == ret[1]
      BadShape == \/ ~arg.current_vector_is_list
                  \/ n = 0
                  \/ \E i \in 1..n : "id" \notin cands[i].keys \/ "vector" \notin cands[i].keys
      Cos(i) == CosineTable[arg.current_vector][cands[i].vector]
      \* the place of candidate i in the ranking
      Pos(i) == 1 + Cardinality({j \in 1..n : Cos(j) > Cos(i) \/ (Cos(j) = Cos(i) /\ j < i)})
  IN pc # "start" =>
       /\ BadShape => out = Raised("ValueError")
       /\ ~BadShape =>
            /\ out.kind = "minimal"
            /\ Len(out.ranked_ids) = n
            /\ \A i \in 1..n :
                 /\ out.ranked_ids[Pos(i)] = cands[i].id
                 /\ Cardinality({p \in 1..n : out.ranked_ids[p] = cands[i].id}) = 1
                 /\ out.scores[cands[i].id] = Cos(i)

\* C24 (amended): on the minimal path, when every candidate has an id and a
\* list vector of the length of current_vector, ranked_ids lists the id of
\* every candidate, once per candidate, in order of non-increasing cosine,
\* equal cosines in input order, and scores maps each id to the cosine of
\* the last candidate of that order that has the id; a candidate without an
\* id or without a list vector, a vector of another length than
\* current_vector, an empty candidate list or a current_vector that is not a
\* list makes the call raise ValueError.
C24_MinimalPath ==
  LET cands == arg.candidates
      n == Len(cands)
      out == ret[1]
      Fails == \/ ~arg.current_vector_is_list
               \/ n = 0
               \/ \E i \in 1..n : \/ "id" \notin cands[i].keys
                                  \/ "vector" \notin cands[i].keys
                                  \/ Len(cands[i].vector) # Len(arg.current_vector)
      Cos(i) == CosineTable[arg.current_vector][cands[i].vector]
      Pos(i) == 1 + Cardinality({j \in 1..n : Cos(j) > Cos(i) \/ (Cos(j) = Cos(i) /\ j < i)})
      \* the candidate with the id of candidate i that is ranked last
      LastOf(i) == CHOOSE l \in 1..n :
                     /\ cands[l].id = cands[i].id
                     /\ \A j \in 1..n : cands[j].id = cands[i].id => Pos(j) <= Pos(l)
  IN pc # "start" =>
       /\ Fails => out = Raised("ValueError")
       /\ ~Fails =>
            /\ out.kind = "minimal"
            /\ Len(out.ranked_ids) = n
            /\ DOMAIN out.scores = {cands[i].id : i \in 1..n}
            /\ \A i \in 1..n :
                 /\ out.ranked_ids[Pos(i)] = cands[i].id
                 /\ out.scores[cands[i].id] = Cos(LastOf(i))
                 /\ (\A j \in 1..n : j # i => cands[j].id # cands[i].id) =>
                      out.scores[cands[i].id] = Cos(i)

\* three candidates: the second has the largest cosine, the first and the
\* third tie and stay in input order; the second and the third share an id,
\* which scores maps to the smaller cosine
C24_Witness ==
  /\ pc = "skipped"
  /\ ret[1].kind = "minimal"
  /\ Len(arg.candidates) = 3
  /\ arg.candidates[2].id = arg.candidates[3].id
  /\ arg.candidates[1].id # arg.candidates[2].id
  /\ ret[1].ranked_ids = <<arg.candidates[2].id, arg.candidates[1].id, arg.candidates[3].id>>
  /\ CosineTable[arg.current_vector][arg.candidates[1].vector]
       = CosineTable[arg.current_vector][arg.candidates[3].vector]
  /\ ret[1].scores[arg.candidates[2].id] < CosineTable[arg.current_vector][arg.candidates[2].vector]

\* C25 (as stated): on the full path of rank_items, when the call does not
\* abstain, the id of every input candidate is the id of best or of an
\* alternate, for any number of candidates and any params.
C25_EveryIdReturned ==
  LET out == ret[1]
      items == out.best \o out.alternates
  IN (pc = "returned" /\ out.kind = "full" /\ ~out.abstain) =>
       \A i \in 1..Len(arg.candidates) :
         \E p \in 1..Len(items) : items[p].id = arg.candidates[i].id

\* C25 (amended): on the full path, when the call returns without
\* abstaining: if rank returned no alternates, the alternates are the ids of
\* the candidates whose id is not that of best, by non-increasing cosine, so
\* the id of every input candidate is in the output; if rank returned
\* alternates, the output is that of rank, best and at most k - 1
\* alternates.
C25_FallbackWhenNoAlternates ==
  LET out == ret[1]
      items == out.best \o out.alternates
      cands == arg.candidates
      n == Len(cands)
      Cos(i) == CosineTable[arg.current_vector][cands[i].vector]
      Others == {i \in 1..n : cands[i].id # out.best[1].id}
      \* the place of candidate i among the others
      Pos(i) == 1 + Cardinality({j \in Others : Cos(j) > Cos(i) \/ (Cos(j) = Cos(i) /\ j < i)})
  IN (pc = "returned" /\ out.kind = "full" /\ ~out.abstain) =>
       /\ out.best = resp.best
       /\ \E i \in 1..n : cands[i].id = out.best[1].id
       /\ resp.alternates = << >> =>
            /\ Len(out.alternates) = Cardinality(Others)
            /\ \A i \in Others : out.alternates[Pos(i)] = [id |-> cands[i].id]
            /\ \A i \in 1..n : \E p \in 1..Len(items) : items[p].id = cands[i].id
       /\ resp.alternates # << >> =>
            /\ out.alternates = resp.alternates
            /\ Len(items) <= req.params.k
            /\ \A p \in 1..Len(items) : \E i \in 1..Len(chosen) : items[p].id = chosen[i].id

\* default params, three candidates with three ids: rank dedupes one of
\* them and returns the two others, and the output lacks the third id
C25_Witness ==
  /\ pc = "returned"
  /\ ret[1].kind = "full"
  /\ ~ret[1].abstain
  /\ arg.params.keys = {}
  /\ Len(arg.candidates) = 3
  /\ Len(resp.alternates) = 1
  /\ ret[1].alternates = resp.alternates
  /\ \E i \in 1..3 :
       /\ arg.candidates[i].id # ret[1].best[1].id
       /\ arg.candidates[i].id # ret[1].alternates[1].id

\* C26: the list dedup_scored returns for a non-empty list of unfiltered
\* scored candidates is not empty: it holds, for each candidate, an item of
\* the same group that scores at least as much; so rank never answers
\* all_deduped.
C26_AllDedupedUnreachable ==
  /\ pc = "returned" => resp.reason # "all_deduped"
  /\ (pc # "start" /\ scored # << >> /\ ~dedup_raises(scored)) =>
       /\ deduped # << >>
       /\ \A i \in 1..Len(scored) :
            \E j \in 1..Len(deduped) :
              /\ norm_text(deduped[j].cand.pemSkeleton) = norm_text(scored[i].cand.pemSkeleton)
              /\ deduped[j].cand.activeFile_hash = scored[i].cand.activeFile_hash
              /\ deduped[j].score >= scored[i].score

\* three unfiltered candidates of one group, of which the dedupe keeps one
C26_Witness ==
  /\ pc = "returned"
  /\ Len(scored) = 3
  /\ Len(deduped) = 1
  /\ scored[1].cand # scored[2].cand
  /\ deduped[1].score > scored[1].score

\* C27: two calls of rank on requests that differ only in k and mmr_lambda
\* have the same outcome as far as best goes: both return, with the same
\* abstain flag and reason and, when they do not abstain, the same best,
\* which is the first item of the deduped list, of maximum score among the
\* unfiltered candidates.
C27_BestIndependent ==
  ret # << >> =>
    /\ pc = ret[1].pc
    /\ pc = "returned" =>
         /\ resp.abstain = ret[1].resp.abstain
         /\ resp.reason = ret[1].resp.reason
         /\ ~resp.abstain =>
              /\ resp.best = ret[1].resp.best
              /\ resp.best = <<RankedItem(deduped[1], req.query)>>
              /\ \A i \in 1..Len(scored) : scored[i].score <= deduped[1].score

\* C28: in the list dedup_scored returns, the item kept after the primary of
\* its group always has a resolutionDepth; and with allow_repeat_depth = 0
\* and allow_repeat_min_hours = 0 a group keeps a repeat exactly when some
\* item of it other than the primary has a resolutionDepth and is not newer
\* than the primary, the repeat being the first such item of the sorted
\* group.
C28_NullDepthNeverRepeat ==
  pc = "deduped" =>
    LET in == arg.scored
        out == ret[1]
        SameKey(x, y) == dedup_key(x.cand) = dedup_key(y.cand)
        \* in[i] qualifies as the repeat of the group whose primary is P
        Qualifies(i, P) ==
          /\ SameKey(in[i], P)
          /\ in[i] # P \/ \E j \in 1..Len(in) : j # i /\ in[j] = P
          /\ in[i].cand.resolutionDepth # NoDepth
          /\ hours_between(P.cand.timestamp, in[i].cand.timestamp) >= 0
    IN /\ \A i, j \in 1..Len(out) :
            (i < j /\ SameKey(out[i], out[j])) => out[j].cand.resolutionDepth # NoDepth
       /\ (arg.params.allow_repeat_depth = 0 /\ arg.params.allow_repeat_min_hours = 0) =>
            \A p \in 1..Len(out) :
              (\A q \in 1..(p - 1) : ~SameKey(out[q], out[p])) =>
                LET repeats == {j \in (p + 1)..Len(out) : SameKey(out[p], out[j])}
                IN IF \E i \in 1..Len(in) : Qualifies(i, out[p])
                     THEN /\ Cardinality(repeats) = 1
                          /\ \A j \in repeats :
                               /\ \E i \in 1..Len(in) : Qualifies(i, out[p]) /\ in[i] = out[j]
                               /\ \A i \in 1..Len(in) :
                                    Qualifies(i, out[p]) => ~ScoreTimeLess(out[j], in[i])
                     ELSE repeats = {}

\* a group of three under depth 0 and 0 hours: the item without a
\* resolutionDepth comes right after the primary and is not newer than it,
\* yet the repeat that is kept is the one after it
C28_Witness ==
  /\ pc = "deduped"
  /\ arg.params.allow_repeat_depth = 0
  /\ arg.params.allow_repeat_min_hours = 0
  /\ Len(arg.scored) = 3
  /\ Len(ret[1]) = 2
  /\ dedup_key(ret[1][1].cand) = dedup_key(ret[1][2].cand)
  /\ \E i \in 1..3 :
       /\ arg.scored[i].cand.resolutionDepth = NoDepth
       /\ dedup_key(arg.scored[i].cand) = dedup_key(ret[1][1].cand)
       /\ arg.scored[i].score > ret[1][2].score
       /\ arg.scored[i].score < ret[1][1].score
       /\ hours_between(ret[1][1].cand.timestamp, arg.scored[i].cand.timestamp) >= 0

\* C29: when mmr_lambda is 1, the items of a recommendation (best, then the
\* alternates) are the first min(k, n) items of the deduped list, in the
\* order of that list, n being its length.
C29_LambdaOneTakesPrefix ==
  (pc = "returned" /\ ~resp.abstain /\ req.params.mmr_lambda = SCALE) =>
    LET items == resp.best \o resp.alternates
        m == Min2(req.params.k, Len(deduped))
    IN /\ Len(items) = m
       /\ chosen = SubSeq(deduped, 1, m)
       /\ \A i \in 1..m : items[i] = RankedItem(deduped[i], req.query)

\* two of three deduped items are emitted under mmr_lambda = 1, where the
\* default mmr_lambda would have preferred the third item to the second
C29_Witness ==
  /\ pc = "returned"
  /\ ~resp.abstain
  /\ req.params.mmr_lambda = SCALE
  /\ req.params.k = 2
  /\ Len(deduped) = 3
  /\ Len(resp.alternates) = 1
  /\ deduped[2].score > deduped[3].score
  /\ mmr_select(deduped, 2, DefaultParams.mmr_lambda) = <<deduped[1], deduped[3]>>

\* C30: at every point of a call of rank the request's candidates, query and
\* params are as they were passed, the list given to dedup_scored is as it
\* was given, and so is the list given to mmr_select.
C30_InputUntouched ==
  /\ arg.heap.cands = req.candidates
  /\ arg.heap.query = req.query
  /\ arg.heap.params = req.params
  /\ arg.heap.scored = scored
  /\ arg.heap.result = deduped

\* a call that returned a recommendation: dedup_scored was given three
\* items that were not in the order of their scores and returned two, and
\* mmr_select popped both of them from its copy
C30_Witness ==
  /\ pc = "returned"
  /\ ~resp.abstain
  /\ Len(req.candidates) = 3
  /\ Len(scored) = 3
  /\ Len(deduped) = 2
  /\ scored[1].score < scored[2].score
  /\ Len(arg.heap.remaining) = 0
  /\ Len(arg.heap.selected) = 2

====
